---- MODULE Spec2Model ----
(***************************************************************************)
(* A model of the GRAIL world model connection library                     *)
(* (OwlPlatform/cpp-owl-solver).                                           *)
(*                                                                         *)
(* Part 1: ClientWorldConnection with its Response / StepResponse handles  *)
(*         (src/src/client_world_connection.cpp).                          *)
(* Part 2: the writes to the socket, of the client and of SolverWorldModel *)
(*         (src/src/solver_world_connection.cpp).                          *)
(* Part 3: the on-demand gate of SolverWorldModel::sendData.               *)
(* Part 4: SolverAggregator and its worker threads                         *)
(*         (src/src/solver_aggregator_connection.cpp).                     *)
(*                                                                         *)
(* step_promises maps a ticket to the queue of the promises (slots)        *)
(* allocated for it; a slot is the state of one std::promise.  The future  *)
(* a live handle holds is always the future of the front slot of its       *)
(* ticket's queue: makeStepPromise and getNextFuture are the only places   *)
(* that hand out a future, and both take it from the front.                *)
(*                                                                         *)
(* Code that runs under promise_mutex is one atomic step for the other     *)
(* code that takes the mutex; markFinished takes no mutex, so its          *)
(* statements interleave with the receive thread's critical sections.      *)
(***************************************************************************)
EXTENDS Integers, Sequences, FiniteSets, Bags, TLC

\* ------------------------------------------------------------------ bounds
MaxRequests == 1      \* requests issued in the behaviours of Spec
MaxMsgs == 3          \* messages the receive thread dispatches; calls on one handle

Users == {"u1", "u2"}
URIs == {"a", "b"}

VARIABLES
  cur_key,          \* uint32_t cur_key
  step_promises,    \* map ticket -> queue of promises
  single_response,  \* set of tickets of non-step responses
  partial_results,  \* map ticket -> WorldState under construction
  errors,           \* keys of the errors map
  handles,          \* the Response / StepResponse objects handed to the user
  s,                \* ClientSocket s, as a boolean (operator bool)
  rxpc,             \* receive thread: "off", "recv", "push", "exited", and
                    \* "ka_lock", "ka_write", "caught" around a keep_alive
  rxTicket,         \* ticket of the data_response the receive thread is in
  promise_mutex,    \* "free" or the thread holding it
  user,             \* user thread: position in a request method, its locals
  received,         \* number of messages the receive thread has dispatched
  dispatched,       \* per live ticket, the messages dispatched for it, in order
  unresolved,       \* tickets of which a slot was deleted while still pending
  leaked,           \* tickets of which a slot was dropped without delete
  netError,         \* tickets whose tail the network error handler has failed
  fault,            \* how the process ended, if it was terminated
  destroyed,        \* ~ClientWorldConnection has run
  out_mutex,        \* client: "free" or the thread holding out_mutex
  cw,               \* client: position of each user thread on the send path
  solver,           \* SolverWorldModel: s, running, interrupted, send_mutex, tracker
  sar,              \* solver: per thread, the locals of its sendAndReconnect call
  types,            \* solver: vector of AliasType, the type registry
  aliases,          \* solver: map type -> alias
  on_demand_on,     \* solver: map alias -> multiset of OnDemandArgs
  sdcall,           \* solver: per user thread, the locals of its sendData call
  tracked,          \* solver: per alias and request, the numbers of
                    \* start_on_demand and stop_on_demand messages processed
  subscriptions,    \* aggregator: the list of subscription rules
  server_threads,   \* aggregator: the threads of the connections
  interrupted,      \* aggregator: interrupt_type interrupted
  callback_mutex,   \* aggregator: "free" or the worker holding it
  worker,           \* aggregator: per target, the locals of its worker thread
  ctl,              \* aggregator: the user thread inside a method of the class
  wire,             \* aggregator: per target, what the peer has observed
  known_attributes, \* client: map alias -> attribute name
  known_origins,    \* client: map alias -> origin
  delivered,        \* client: the attribute that the last data_response gave
  sub_mutex,        \* aggregator: "free" or the thread holding sub_mutex
  compiled,         \* solver: regex_t objects compiled and not yet freed
  solver_dtor       \* solver: ~SolverWorldModel, "none", "join" or "done"

cvars == <<cur_key, step_promises, single_response, partial_results, errors,
           handles, s, rxpc, rxTicket, promise_mutex, user, received,
           dispatched, unresolved, leaked, netError, fault, destroyed>>

\* The send paths of the client and of the solver
wvars == <<out_mutex, cw, solver, sar>>

\* The on-demand state of the solver
dvars == <<types, aliases, on_demand_on, sdcall, tracked>>

\* What the client and its send path leave alone
\* The state of SolverAggregator
avars == <<subscriptions, server_threads, interrupted, callback_mutex, worker,
           ctl, wire>>

\* The client's alias tables
lvars == <<known_attributes, known_origins, delivered>>

\* The lock of the subscription list, and the solver's compiled patterns
rvars == <<sub_mutex, compiled, solver_dtor>>

xvars == <<dvars, avars, lvars, rvars>>

vars == <<cvars, wvars, xvars>>

\* ------------------------------------------------------------ data types
\* A WorldState maps a URI to its attributes; 0 stands for "URI absent".
\* The attributes carried by the i-th message received are the number i.
EmptyWS == [u \in URIs |-> 0]

NoFault == [kind |-> "none", op |-> "none"]

AlreadySatisfied(op) == [kind |-> "promise_already_satisfied", op |-> op]

Undefined(op) == [kind |-> "undefined", op |-> op]

\* std::terminate: a std::thread was move-assigned to rx_thread while
\* rx_thread was joinable, after the new receive thread had been started
TwoThreads == [kind |-> "terminate", op |-> "reconnect"]

\* new promise<WorldState>()
NewPromise == [st |-> "pending", ws |-> EmptyWS, exc |-> "none"]

\* promise::set_value
Value(ws) == [st |-> "value", ws |-> ws, exc |-> "none"]

\* promise::set_exception
Exception(exc) == [st |-> "exception", ws |-> EmptyWS, exc |-> exc]

Back(q) == q[Len(q)]

SetBack(q, slot) == [q EXCEPT ![Len(q)] = slot]

SetFront(q, slot) == [q EXCEPT ![1] = slot]

Erase(f, k) == [x \in DOMAIN f \ {k} |-> f[x]]

Put(f, k, v) == [x \in DOMAIN f \cup {k} |-> IF x = k THEN v ELSE f[x]]

At(f, k, default) == IF k \in DOMAIN f THEN f[k] ELSE default

AnyPending(q) == \E i \in DOMAIN q : q[i].st = "pending"

\* What undefined behaviour (front()/back() of an empty queue, a dangling
\* iterator) may do: end the process, or go on without a visible effect.
UBOutcomes == {"crash", "benign"}

\* The socket after an I/O operation on it has failed: the socket library,
\* which is not part of this repository, may have closed it or not.
AfterFailure(sock, closes) == IF closes THEN FALSE ELSE sock

Running == fault = NoFault /\ ~destroyed

\* A uint32_t as its two 16-bit halves <<high, low>> (2^32 is more than the
\* model checker's integers hold).
Half == 65536

Key(high, low) == <<high, low>>

KeyLess(a, b) == a[1] < b[1] \/ (a[1] = b[1] /\ a[2] < b[2])

Idle == [pc |-> "idle", kind |-> "none", ticket |-> Key(0, 0), handle |-> 0]

\* "single" stands for snapshotRequest, currentSnapshotRequest and
\* rangeRequest, whose code differs only in the request message encoded.
Kinds == {"single", "stream"}

HandleIds == 1..Len(handles)

\* The handle has been returned to the user (no request method still holds it).
Returned(h) == \A u \in Users : user[u].handle # h

\* Some user thread is free to call a method of a handle.
SomeIdle == \E u \in Users : user[u].pc = "idle"

Res(r, ws) == [r |-> r, ws |-> ws]

\* A handle whose destructor has started: its members are no more.
Destructed(hd, st) ==
  [kind |-> hd.kind, ticket |-> hd.ticket, data |-> "invalid", st |-> st,
   got |-> <<>>, sent |-> hd.sent /\ st # "gone", refused |-> FALSE]

\* What future::get() gives for a ready slot
Outcome(slot) ==
  IF slot.st = "value" THEN Res("value", slot.ws) ELSE Res(slot.exc, EmptyWS)

\* ------------------------------------------------- promise_mutex, cur_key
\* std::unique_lock<std::mutex> lck(promise_mutex) can be taken
CanLock(m) == m = "free"

\* cur_key++ on a uint32_t: 2^32 - 1 is followed by 0
NextKey(k) ==
  IF k[2] + 1 < Half THEN Key(k[1], k[2] + 1) ELSE Key((k[1] + 1) % Half, 0)

\* ---------------------------------------------------------- observers
hasNextFuture(key) == key \in DOMAIN step_promises

isComplete(key) == key \notin DOMAIN step_promises

hasError(key) == key \in errors

\* The future `data` of handle h is valid and its slot is there to read.
HasSlot(h) ==
  /\ handles[h].data = "valid"
  /\ handles[h].ticket \in DOMAIN step_promises
  /\ step_promises[handles[h].ticket] # <<>>

\* Response::ready / StepResponse::hasNext
ready(h) == HasSlot(h) /\ Head(step_promises[handles[h].ticket]).st # "pending"

\* get() / next() would block: no error recorded, the future not ready
Blocks(h) ==
  /\ ~hasError(handles[h].ticket)
  /\ HasSlot(h)
  /\ Head(step_promises[handles[h].ticket]).st = "pending"

\* A merge in which the first message for a URI wins
MergeDataKeepFirst(ws, uri, attrs) ==
  IF ws[uri] = 0 THEN [ws EXCEPT ![uri] = attrs] ELSE ws

\* partial_results[ticket][wd.object_uri] = wd.attributes
MergeData(ws, uri, attrs) == [ws EXCEPT ![uri] = attrs]

\* WorldState ws; ws[wd.object_uri] = wd.attributes
SingleEntry(uri, attrs) == MergeData(EmptyWS, uri, attrs)

\* partial_results[ticket] (operator[] default-constructs a missing entry)
PartialOf(t) == At(partial_results, t, EmptyWS)

\* ------------------------------------------------------- request methods
\* snapshotRequest / rangeRequest / streamRequest, first critical section:
\* the read of `ticket = cur_key++`.  limit bounds the requests issued.
AllocRead(u, kind, limit) ==
  /\ Running
  /\ user[u].pc = "idle"
  /\ Len(handles) + Cardinality({x \in Users : user[x].pc # "idle"}) < limit
  /\ CanLock(promise_mutex)
  /\ promise_mutex' = u
  /\ user' = [user EXCEPT ![u] = [pc |-> "incr", kind |-> kind,
                                  ticket |-> cur_key, handle |-> 0]]
  /\ UNCHANGED <<cur_key, step_promises, single_response, partial_results, errors,
                 handles, s, rxpc, rxTicket, received, dispatched, unresolved, leaked,
                 netError, fault, destroyed>>

\* ... the write of `ticket = cur_key++`, and the unlock at the block's end
AllocIncr(u) ==
  /\ Running
  /\ user[u].pc = "incr"
  /\ cur_key' = NextKey(user[u].ticket)
  /\ promise_mutex' = "free"
  /\ user' = [user EXCEPT ![u].pc = "register"]
  /\ UNCHANGED <<step_promises, single_response, partial_results, errors,
                 handles, s, rxpc, rxTicket, received, dispatched, unresolved, leaked,
                 netError, fault, destroyed>>

\* makePromise / makeStepPromise and the construction of the handle r.
\* step_promises[key] = std::queue<...>() drops what an older queue held.
makeStepPromise(u) ==
  LET t == user[u].ticket IN
  /\ Running
  /\ user[u].pc = "register"
  /\ CanLock(promise_mutex)
  /\ single_response' = IF user[u].kind = "single"
                        THEN single_response \cup {t} ELSE single_response
  /\ step_promises' = Put(step_promises, t, <<NewPromise>>)
  /\ leaked' = IF At(step_promises, t, <<>>) # <<>> THEN leaked \cup {t} ELSE leaked
  /\ errors' = errors \ {t}
  /\ handles' = Append(handles, [kind |-> user[u].kind, ticket |-> t,
                                 data |-> "valid", st |-> "live", got |-> <<>>,
                                 sent |-> FALSE, refused |-> FALSE])
  /\ user' = [user EXCEPT ![u].pc = "send", ![u].handle = Len(handles) + 1]
  /\ UNCHANGED <<cur_key, partial_results, s, rxpc, rxTicket, promise_mutex,
                 received, dispatched, unresolved, netError, fault, destroyed>>

\* A setError that leaves no trace of the error
setErrorUnrecorded(key) ==
  [throws |-> FALSE, sp |-> step_promises, errs |-> errors]

\* setError(key, "not connected"): the new <<step_promises, errors>>, or
\* throws when set_exception finds the tail already satisfied (errors[key]
\* is then not reached).
setError(key) ==
  IF At(step_promises, key, <<>>) # <<>>
  THEN IF Back(step_promises[key]).st = "pending"
       THEN [throws |-> FALSE,
             sp |-> [step_promises EXCEPT
                       ![key] = SetBack(@, Exception("NotConnected"))],
             errs |-> errors \cup {key}]
       ELSE [throws |-> TRUE, sp |-> step_promises, errs |-> errors]
  ELSE [throws |-> FALSE, sp |-> step_promises, errs |-> errors \cup {key}]

\* What the network does to one attempt to talk to the world model:
\*   "ok"                everything succeeds
\*   "refused"           no connection, or the handshake bytes differ
\*   "handshake_throws"  connected, s.send / s.receive of the handshake throws
\*   "send_throws"       s.send of the message throws std::runtime_error
NetOutcomes == {"ok", "refused", "handshake_throws", "send_throws"}

\* The rest of a request method, under out_mutex:
\*   if (not s and not reconnect()) setError(ticket, "not connected");
\*   else s.send(make...Request(request, ticket));
\* An exception (of reconnect, of s.send, of setError) leaves the method
\* through the destructor of r, which calls markFinished.
SendRequest(u, net, closes) ==
  LET h == user[u].handle
      t == user[u].ticket
      e == setError(t)
      refuses == ~s /\ net = "refused"
      throws == \/ net = "send_throws"
                \/ ~s /\ net = "handshake_throws"
                \/ refuses /\ e.throws
  IN
  /\ Running
  /\ user[u].pc = "send"
  /\ CanLock(promise_mutex)
  /\ s => net \in {"ok", "send_throws"}
  /\ ~s => rxpc # "push"
  /\ closes => net \in {"handshake_throws", "send_throws"}
  /\ s' = AfterFailure(s \/ ~refuses, closes)
  /\ rxpc' = IF s THEN rxpc
             ELSE IF net \in {"ok", "send_throws"} THEN "recv" ELSE "off"
  /\ handles' = [handles EXCEPT
       ![h] = IF throws THEN Destructed(@, "unwinding")
              ELSE IF refuses THEN [@ EXCEPT !.refused = TRUE]
              ELSE [@ EXCEPT !.sent = TRUE]]
  /\ step_promises' = IF refuses /\ ~e.throws THEN e.sp ELSE step_promises
  /\ errors' = IF refuses /\ ~e.throws THEN e.errs ELSE errors
  /\ user' = [user EXCEPT ![u] = Idle]
  /\ UNCHANGED <<cur_key, single_response, partial_results, rxTicket, promise_mutex,
                 received, dispatched, unresolved, leaked, netError, fault, destroyed>>

\* ------------------------------------------------------- handle methods
\* world_model::WorldState Response::get()
\*   if (isError()) throw getError();  return data.get();
get(h) ==
  LET t == handles[h].ticket IN
  /\ Running /\ SomeIdle
  /\ h \in HandleIds /\ Returned(h)
  /\ handles[h].kind = "single" /\ handles[h].st = "live"
  /\ Len(handles[h].got) < MaxMsgs
  /\ CanLock(promise_mutex)
  /\ IF hasError(t)
     THEN handles' = [handles EXCEPT ![h].got = Append(@, Res("error", EmptyWS))]
     ELSE /\ ready(h)
          /\ handles' = [handles EXCEPT
               ![h].got = Append(@, Outcome(Head(step_promises[t]))),
               ![h].data = "invalid"]
  /\ UNCHANGED <<cur_key, step_promises, single_response, partial_results, errors,
                 s, rxpc, rxTicket, promise_mutex, user, received, dispatched, unresolved,
                 leaked, netError, fault, destroyed>>

\* world_model::WorldState StepResponse::next(), with
\* ClientWorldConnection::getNextFuture: pop and delete the front, then
\* pq.front()->get_future().  ub: what front() of the emptied queue leads to.
next(h, ub) ==
  LET t == handles[h].ticket
      q == step_promises[t]
      thrown(r) == [handles EXCEPT ![h].got = Append(@, Res(r, EmptyWS))]
  IN
  /\ Running /\ SomeIdle
  /\ h \in HandleIds /\ Returned(h)
  /\ handles[h].kind = "stream" /\ handles[h].st = "live"
  /\ Len(handles[h].got) < MaxMsgs
  /\ CanLock(promise_mutex)
  /\ IF hasError(t)
     THEN /\ ub = "benign"
          /\ handles' = thrown("error")
          /\ UNCHANGED <<step_promises, fault>>
     ELSE IF handles[h].data = "invalid"
     THEN /\ ub = "benign"
          /\ handles' = thrown("logic_error")
          /\ UNCHANGED <<step_promises, fault>>
     ELSE IF handles[h].data = "garbage"
     THEN \* data is what get_future() through a garbage pointer gave
          /\ IF ub = "crash"
             THEN /\ fault' = Undefined("next")
                  /\ handles' = thrown("undefined")
             ELSE /\ handles' = [thrown("logic_error") EXCEPT ![h].data = "invalid"]
                  /\ UNCHANGED fault
          /\ UNCHANGED step_promises
     ELSE /\ ready(h)
          /\ IF Head(q).st = "exception"
             THEN /\ ub = "benign"
                  /\ handles' = [handles EXCEPT ![h].got = Append(@, Outcome(Head(q))),
                                                ![h].data = "invalid"]
                  /\ UNCHANGED <<step_promises, fault>>
             ELSE /\ step_promises' = [step_promises EXCEPT ![t] = Tail(q)]
                  /\ IF Tail(q) # <<>>
                     THEN /\ ub = "benign"
                          /\ handles' = [handles EXCEPT
                               ![h].got = Append(@, Outcome(Head(q)))]
                          /\ UNCHANGED fault
                     ELSE IF ub = "crash"
                     THEN /\ fault' = Undefined("next")
                          /\ handles' = thrown("undefined")
                     ELSE /\ handles' = [handles EXCEPT
                               ![h].got = Append(@, Outcome(Head(q))),
                               ![h].data = "garbage"]
                          /\ UNCHANGED fault
  /\ UNCHANGED <<cur_key, single_response, partial_results, errors, s, rxpc,
                 rxTicket, promise_mutex, user, received, dispatched, unresolved, leaked,
                 netError, destroyed>>

\* Response::~Response / StepResponse::~StepResponse -> markFinished(key),
\* which takes no mutex.  First the find and the loop deleting the promises:
markFinishedDrain(h) ==
  LET t == handles[h].ticket IN
  /\ Running /\ SomeIdle
  /\ h \in HandleIds /\ Returned(h)
  /\ handles[h].st \in {"live", "unwinding"}
  /\ IF t \in DOMAIN step_promises
     THEN /\ unresolved' = IF AnyPending(step_promises[t])
                           THEN unresolved \cup {t} ELSE unresolved
          /\ step_promises' = [step_promises EXCEPT ![t] = <<>>]
          /\ handles' = [handles EXCEPT ![h] = Destructed(@, "draining")]
     ELSE /\ handles' = [handles EXCEPT ![h] = Destructed(@, "gone")]
          /\ UNCHANGED <<unresolved, step_promises>>
  /\ UNCHANGED <<cur_key, single_response, partial_results, errors, s, rxpc,
                 rxTicket, promise_mutex, user, received, dispatched, leaked, netError,
                 fault, destroyed>>

\* ... then step_promises.erase(key), which drops what the queue holds now
markFinishedErase(h) ==
  LET t == handles[h].ticket IN
  /\ Running
  /\ h \in HandleIds
  /\ handles[h].st = "draining"
  /\ step_promises' = Erase(step_promises, t)
  /\ leaked' = IF At(step_promises, t, <<>>) # <<>> THEN leaked \cup {t} ELSE leaked
  /\ handles' = [handles EXCEPT ![h] = Destructed(@, "gone")]
  /\ dispatched' = Erase(dispatched, t)
  /\ UNCHANGED <<cur_key, single_response, partial_results, errors, s, rxpc,
                 rxTicket, promise_mutex, user, received, unresolved, netError,
                 fault, destroyed>>

\* ------------------------------------------------------- receive thread
Msg(type, uri, attrs) == [type |-> type, uri |-> uri, attrs |-> attrs]

Log(t) == At(dispatched, t, <<>>)

\* Tickets the messages of the world model name: those of the requests it
\* was sent, as long as they have a slot queue.  A message for a ticket
\* without a queue changes no queue (it only adds to partial_results when
\* the ticket is a forgotten Single one).
Addressed ==
  {t \in DOMAIN step_promises :
     \E h \in HandleIds : handles[h].ticket = t /\ handles[h].sent}

\* receiveThread, MessageID::data_response, up to the set_value of the tail.
\* std::future_error is no std::runtime_error: thrown by set_value it leaves
\* the thread function and std::terminate ends the process.
RxDataResponse(t, uri, ub) ==
  LET attrs == received + 1
      q == step_promises[t]
  IN
  /\ Running
  /\ rxpc = "recv"
  /\ CanLock(promise_mutex)
  /\ t \in Addressed
  /\ received < MaxMsgs
  /\ received' = received + 1
  /\ dispatched' = Put(dispatched, t, Append(Log(t), Msg("data_response", uri, attrs)))
  /\ IF t \in single_response
     THEN /\ ub = "benign"
          /\ partial_results' = Put(partial_results, t, MergeData(PartialOf(t), uri, attrs))
          /\ UNCHANGED <<step_promises, rxpc, rxTicket, promise_mutex, fault>>
     ELSE /\ UNCHANGED partial_results
          /\ IF q = <<>>
             THEN \* back() of a queue that markFinished or next() has emptied
                  IF ub = "crash"
                  THEN /\ fault' = Undefined("data_response")
                       /\ UNCHANGED <<step_promises, rxpc, rxTicket, promise_mutex>>
                  ELSE /\ rxpc' = "push" /\ rxTicket' = t /\ promise_mutex' = "rx"
                       /\ UNCHANGED <<step_promises, fault>>
             ELSE IF Back(q).st = "pending"
             THEN /\ ub = "benign"
                  /\ step_promises' = [step_promises EXCEPT
                       ![t] = SetBack(@, Value(SingleEntry(uri, attrs)))]
                  /\ rxpc' = "push" /\ rxTicket' = t /\ promise_mutex' = "rx"
                  /\ UNCHANGED fault
             ELSE /\ ub = "benign"
                  /\ fault' = AlreadySatisfied("data_response")
                  /\ UNCHANGED <<step_promises, rxpc, rxTicket, promise_mutex>>
  /\ UNCHANGED <<cur_key, single_response, errors, handles, s, user, unresolved,
                 leaked, netError, destroyed>>

\* A handler that sets the tail and pushes no new promise
RxPushNothing(ub) ==
  LET t == rxTicket IN
  /\ Running
  /\ rxpc = "push"
  /\ ub = "benign"
  /\ rxpc' = "recv"
  /\ promise_mutex' = "free"
  /\ UNCHANGED <<cur_key, step_promises, single_response, partial_results, errors,
                 handles, s, rxTicket, user, received, dispatched, unresolved,
                 leaked, netError, fault, destroyed>>

\* ... I->second.push(new promise<WorldState>()), and the unlock
RxPush(ub) ==
  LET t == rxTicket IN
  /\ Running
  /\ rxpc = "push"
  /\ IF t \in DOMAIN step_promises
     THEN /\ ub = "benign"
          /\ step_promises' = [step_promises EXCEPT ![t] = Append(@, NewPromise)]
          /\ UNCHANGED <<fault, leaked>>
     ELSE \* I points into a map node that markFinished has erased
          IF ub = "crash"
          THEN /\ fault' = Undefined("data_response")
               /\ UNCHANGED <<step_promises, leaked>>
          ELSE /\ leaked' = leaked \cup {t}
               /\ UNCHANGED <<step_promises, fault>>
  /\ rxpc' = "recv"
  /\ promise_mutex' = "free"
  /\ UNCHANGED <<cur_key, single_response, partial_results, errors, handles, s,
                 rxTicket, user, received, dispatched, unresolved, netError, destroyed>>

\* receiveThread, MessageID::request_complete
RxRequestComplete(t, ub) ==
  LET q == step_promises[t]
      slot == IF t \in single_response THEN Head(q) ELSE Back(q)
  IN
  /\ Running
  /\ rxpc = "recv"
  /\ CanLock(promise_mutex)
  /\ t \in Addressed
  /\ received < MaxMsgs
  /\ received' = received + 1
  /\ dispatched' = Put(dispatched, t, Append(Log(t), Msg("request_complete", "-", 0)))
  /\ IF q = <<>>
     THEN /\ fault' = IF ub = "crash" THEN Undefined("request_complete") ELSE fault
          /\ UNCHANGED <<step_promises, partial_results>>
     ELSE IF slot.st # "pending"
     THEN /\ ub = "benign"
          /\ fault' = AlreadySatisfied("request_complete")
          /\ UNCHANGED <<step_promises, partial_results>>
     ELSE /\ ub = "benign"
          /\ IF t \in single_response
             THEN /\ step_promises' = [step_promises EXCEPT
                       ![t] = SetFront(@, Value(PartialOf(t)))]
                  /\ partial_results' = Erase(partial_results, t)
             ELSE /\ step_promises' = [step_promises EXCEPT
                       ![t] = SetBack(@, Value(EmptyWS))]
                  /\ UNCHANGED partial_results
          /\ UNCHANGED fault
  /\ UNCHANGED <<cur_key, single_response, errors, handles, s, rxpc, rxTicket,
                 promise_mutex, user, unresolved, leaked, netError, destroyed>>

\* receiveThread, catch (std::runtime_error&): getNextMessage has failed, or
\* the write of the keep-alive reply has ("caught").  Sets
\* the tail of every queue to "Connection Closed"; set_exception on a tail
\* that is already satisfied throws std::future_error out of the handler.
RxNetworkError(ub, closes) ==
  LET live == DOMAIN step_promises
      full == {t \in live : step_promises[t] # <<>>}
  IN
  /\ Running
  /\ rxpc \in {"recv", "caught"}
  /\ rxpc = "caught" => ~closes
  /\ CanLock(promise_mutex)
  /\ netError' = netError \cup full
  /\ s' = AfterFailure(s, closes)
  /\ IF \E t \in full : Back(step_promises[t]).st # "pending"
     THEN /\ ub = "benign"
          /\ fault' = AlreadySatisfied("network_error")
          /\ UNCHANGED <<step_promises, rxpc>>
     ELSE IF ub = "crash"
     THEN /\ full # live
          /\ fault' = Undefined("network_error")
          /\ UNCHANGED <<step_promises, rxpc>>
     ELSE /\ step_promises' = [t \in live |->
                                 IF t \in full
                                 THEN SetBack(step_promises[t],
                                              Exception("ConnectionClosed"))
                                 ELSE step_promises[t]]
          /\ rxpc' = "exited"
          /\ UNCHANGED fault
  /\ UNCHANGED <<cur_key, single_response, partial_results, errors, handles,
                 rxTicket, promise_mutex, user, received, dispatched, unresolved, leaked,
                 destroyed>>

\* receiveThread, raw_message.size() < 5: break
RxBrokenMessage ==
  /\ Running
  /\ rxpc = "recv"
  /\ rxpc' = "exited"
  /\ UNCHANGED <<cur_key, step_promises, single_response, partial_results, errors,
                 handles, s, rxTicket, promise_mutex, user, received, dispatched,
                 unresolved, leaked, netError, fault, destroyed>>

\* --------------------------------------------- reconnect, the destructor
\* bool ClientWorldConnection::reconnect(), called by the user.  The join
\* returns when the receive thread has left its loop (a join of a thread
\* that is not joinable throws, and the exception is swallowed).  An open
\* socket is kept and only the handshake is made again.
reconnect(net, closes) ==
  /\ Running /\ SomeIdle
  /\ \A u \in Users : user[u].pc # "send"
  /\ rxpc # "push"
  /\ net # "send_throws"
  /\ s => net # "refused"
  /\ closes => net = "handshake_throws"
  /\ s' = AfterFailure(net # "refused", closes)
  /\ rxpc' = IF net = "ok" THEN "recv" ELSE "off"
  /\ UNCHANGED <<cur_key, step_promises, single_response, partial_results, errors,
                 handles, rxTicket, promise_mutex, user, received, dispatched, unresolved,
                 leaked, netError, fault, destroyed>>

\* The process has ended, or the connection object is no more: what is left
\* is how it ended (f), and what happened to the slots.
Gone(f, d, unres) ==
  /\ fault' = f
  /\ destroyed' = d
  /\ unresolved' = unres
  /\ cur_key' = Key(0, 0)
  /\ step_promises' = <<>>
  /\ single_response' = {}
  /\ partial_results' = <<>>
  /\ errors' = {}
  /\ handles' = [h \in HandleIds |-> Destructed(handles[h], handles[h].st)]
  /\ s' = FALSE
  /\ rxpc' = "off"
  /\ rxTicket' = Key(0, 0)
  /\ promise_mutex' = "free"
  /\ received' = 0
  /\ dispatched' = <<>>
  /\ UNCHANGED <<user, leaked, netError>>

\* ClientWorldConnection::~ClientWorldConnection().  rx_thread.join() of a
\* thread that is not joinable throws std::system_error; set_exception on a
\* front that is already satisfied throws std::future_error; an exception
\* leaving the destructor ends the process.
Destructor(ub) ==
  LET live == DOMAIN step_promises
      full == {t \in live : step_promises[t] # <<>>}
  IN
  /\ Running
  /\ \A u \in Users : user[u].pc = "idle"
  /\ \A h \in HandleIds : handles[h].st \in {"live", "gone"}
  /\ rxpc # "push"
  /\ IF rxpc = "off"
     THEN /\ ub = "benign"
          /\ Gone([kind |-> "system_error", op |-> "destructor"], FALSE, unresolved)
     ELSE IF \E t \in full : Head(step_promises[t]).st # "pending"
     THEN /\ ub = "benign"
          /\ Gone(AlreadySatisfied("destructor"), FALSE, unresolved)
     ELSE IF ub = "crash"
     THEN \* front() of a queue that next() has emptied
          /\ full # live
          /\ Gone(Undefined("destructor"), FALSE, unresolved)
     ELSE Gone(NoFault, TRUE, unresolved \cup
               {t \in full : AnyPending(SetFront(step_promises[t],
                                                 Exception("Destroyed")))})


\* --------------------------------------------- the client's alias tables
\* The aliases and the strings that the world model's messages carry
AliasNums == 1..2
AttrNames == {"location"}
Origins == {"gps"}

\* A key that the map does not hold, and the std::u16string() that
\* operator[] inserts for it
NoEntry == "no entry"
EmptyString == ""

NoAttribute == [name_alias |-> 0, origin_alias |-> 0,
                name |-> NoEntry, origin |-> NoEntry]

\* ClientWorldConnection::ClientWorldConnection: both maps are empty
AliasInit ==
  /\ known_attributes = [a \in AliasNums |-> NoEntry]
  /\ known_origins = [a \in AliasNums |-> NoEntry]
  /\ delivered = NoAttribute

\* known_attributes[alias], known_origins[alias]: std::map::operator[]
\* gives the string of the key, and inserts an empty string for a key that
\* the map does not hold
Lookup(map, alias) == IF map[alias] = NoEntry THEN EmptyString ELSE map[alias]

AfterLookup(map, alias) == [map EXCEPT ![alias] = Lookup(map, alias)]

\* receiveThread, MessageID::attribute_alias:
\* known_attributes[alias->alias] = alias->type
RxAttributeAlias(alias, name) ==
  /\ Running
  /\ rxpc = "recv"
  /\ known_attributes' = [known_attributes EXCEPT ![alias] = name]
  /\ UNCHANGED <<cvars, wvars, dvars, avars, known_origins, delivered>>

\* receiveThread, MessageID::origin_alias:
\* known_origins[alias->alias] = alias->type
RxOriginAlias(alias, origin) ==
  /\ Running
  /\ rxpc = "recv"
  /\ known_origins' = [known_origins EXCEPT ![alias] = origin]
  /\ UNCHANGED <<cvars, wvars, dvars, avars, known_attributes, delivered>>

\* receiveThread, MessageID::data_response, the for_each over awd.attributes:
\* Attribute{known_attributes[attr.name_alias], ...,
\* known_origins[attr.origin_alias], attr.data}
Resolve(name_alias, origin_alias) ==
  /\ known_attributes' = AfterLookup(known_attributes, name_alias)
  /\ known_origins' = AfterLookup(known_origins, origin_alias)
  /\ delivered' = [name_alias |-> name_alias, origin_alias |-> origin_alias,
                   name |-> Lookup(known_attributes, name_alias),
                   origin |-> Lookup(known_origins, origin_alias)]

\* receiveThread, MessageID::data_response with an attribute that names
\* the two aliases: the attribute is resolved and the world data goes to
\* the ticket
RxAliasedData(t, uri, ub, name_alias, origin_alias) ==
  /\ RxDataResponse(t, uri, ub)
  /\ Resolve(name_alias, origin_alias)

\* ------------------------------------------------ locks and compiled patterns
\* SolverAggregator::SolverAggregator and SolverWorldModel::SolverWorldModel:
\* sub_mutex is unlocked and no pattern has been compiled
ResourceInit ==
  /\ sub_mutex = "free"
  /\ compiled = 0
  /\ solver_dtor = "none"
\* ------------------------------------------- the client's writes to s
\* A user thread off the send path
CwIdle == [pc |-> "idle", via |-> "none"]

CwAt(pc, via) == [pc |-> pc, via |-> via]

\* snapshotRequest / rangeRequest / streamRequest:
\*   std::unique_lock<std::mutex> lck(out_mutex)
RequestLock(u) ==
  /\ Running
  /\ cw[u] = CwIdle
  /\ CanLock(out_mutex)
  /\ out_mutex' = u
  /\ cw' = [cw EXCEPT ![u] = CwAt("locked", "request")]
  /\ UNCHANGED <<cvars, solver, sar>>

\* reconnect() up to the write of the handshake, called by the user (via =
\* "public") or by a request method that holds out_mutex and finds not s.
\* The join returns once the receive thread has left its loop, which it
\* does not do while it waits for out_mutex or writes its keep-alive reply.
reconnectBegin(u, via, connects) ==
  /\ Running
  /\ IF via = "public" THEN cw[u] = CwIdle
                       ELSE cw[u] = CwAt("locked", "request") /\ ~s
  /\ rxpc \in {"off", "recv", "exited"}
  /\ rxpc' = "off"
  /\ IF s \/ connects
     THEN /\ s' = TRUE
          /\ cw' = [cw EXCEPT ![u] = CwAt("handshake", via)]
     ELSE /\ s' = FALSE
          /\ cw' = [cw EXCEPT ![u] = IF via = "public" THEN CwIdle
                                     ELSE CwAt("return", via)]
  /\ UNCHANGED <<cur_key, step_promises, single_response, partial_results, errors,
                 handles, rxTicket, promise_mutex, user, received, dispatched,
                 unresolved, leaked, netError, fault, destroyed,
                 out_mutex, solver, sar>>

\* A reconnect() that leaves the socket as it is after a reply that differs
reconnectEndKeepSocket(u, net, closes) ==
  LET via == cw[u].via
      back == IF via = "public" THEN CwIdle ELSE CwAt("return", via)
      joinable == rxpc # "off"
  IN
  /\ Running
  /\ cw[u].pc = "handshake"
  /\ net \in {"ok", "refused", "handshake_throws"}
  /\ closes => net = "handshake_throws"
  /\ s' = AfterFailure(s, closes)
  /\ rxpc' = IF net = "ok" /\ ~joinable THEN "recv" ELSE rxpc
  /\ fault' = IF net = "ok" /\ joinable THEN TwoThreads ELSE fault
  /\ cw' = [cw EXCEPT ![u] = IF net = "ok" /\ via = "request"
                             THEN CwAt("connected", via)
                             ELSE IF net = "refused" THEN CwAt("refused", via)
                             ELSE back]
  /\ UNCHANGED <<cur_key, step_promises, single_response, partial_results, errors,
                 handles, rxTicket, promise_mutex, user, received, dispatched,
                 unresolved, leaked, netError, destroyed,
                 out_mutex, solver, sar>>

\* reconnect(): s.send(handshake) and s.receive(raw_message) have ended.
\* A reply that is short or differs: s = ClientSocket(port, "", -1), and
\* false is about to be returned.  After an equal reply,
\* rx_thread = std::thread(receiveThread) starts the new thread and
\* move-assigns it: when rx_thread is joinable, because another reconnect()
\* has started a thread since this call's join, the assignment calls
\* std::terminate with both receive threads started.
reconnectEnd(u, net, closes) ==
  LET via == cw[u].via
      back == IF via = "public" THEN CwIdle ELSE CwAt("return", via)
      joinable == rxpc # "off"
  IN
  /\ Running
  /\ cw[u].pc = "handshake"
  /\ net \in {"ok", "refused", "handshake_throws"}
  /\ closes => net = "handshake_throws"
  /\ s' = AfterFailure(net # "refused", closes)
  /\ rxpc' = IF net = "ok" /\ ~joinable THEN "recv" ELSE rxpc
  /\ fault' = IF net = "ok" /\ joinable THEN TwoThreads ELSE fault
  /\ cw' = [cw EXCEPT ![u] = IF net = "ok" /\ via = "request"
                             THEN CwAt("connected", via)
                             ELSE IF net = "refused" THEN CwAt("refused", via)
                             ELSE back]
  /\ UNCHANGED <<cur_key, step_promises, single_response, partial_results, errors,
                 handles, rxTicket, promise_mutex, user, received, dispatched,
                 unresolved, leaked, netError, destroyed,
                 out_mutex, solver, sar>>

\* reconnect() returns false after the handshake has failed; a request
\* method goes on to setError(ticket, "not connected") and sends nothing
reconnectRefused(u) ==
  /\ Running
  /\ cw[u].pc = "refused"
  /\ cw' = [cw EXCEPT ![u] = IF cw[u].via = "public" THEN CwIdle
                             ELSE CwAt("return", cw[u].via)]
  /\ UNCHANGED <<cvars, out_mutex, solver, sar>>

\* s.send(client::make...Request(request, ticket)) begins
RequestSendBegin(u) ==
  /\ Running
  /\ \/ cw[u] = CwAt("locked", "request") /\ s
     \/ cw[u] = CwAt("connected", "request")
  /\ cw' = [cw EXCEPT ![u] = CwAt("writing", "request")]
  /\ UNCHANGED <<cvars, out_mutex, solver, sar>>

\* ... and ends, with the bytes written or with std::runtime_error
RequestSendEnd(u, net, closes) ==
  /\ Running
  /\ cw[u] = CwAt("writing", "request")
  /\ net \in {"ok", "send_throws"}
  /\ closes => net = "send_throws"
  /\ s' = AfterFailure(s, closes)
  /\ cw' = [cw EXCEPT ![u] = CwAt("return", "request")]
  /\ UNCHANGED <<cur_key, step_promises, single_response, partial_results, errors,
                 handles, rxpc, rxTicket, promise_mutex, user, received, dispatched,
                 unresolved, leaked, netError, fault, destroyed,
                 out_mutex, solver, sar>>

\* The request method is left, by return or by an exception: lck unlocks
RequestReturn(u) ==
  /\ Running
  /\ cw[u] = CwAt("return", "request")
  /\ out_mutex' = "free"
  /\ cw' = [cw EXCEPT ![u] = CwIdle]
  /\ UNCHANGED <<cvars, solver, sar>>

\* receiveThread: a keep_alive message was read
RxKeepAlive ==
  /\ Running
  /\ rxpc = "recv"
  /\ rxpc' = "ka_lock"
  /\ UNCHANGED <<cur_key, step_promises, single_response, partial_results, errors,
                 handles, s, rxTicket, promise_mutex, user, received, dispatched,
                 unresolved, leaked, netError, fault, destroyed, wvars>>

\* std::unique_lock<std::mutex> lck(out_mutex); s.send(makeKeepAlive()) begins
RxKeepAliveLock ==
  /\ Running
  /\ rxpc = "ka_lock"
  /\ CanLock(out_mutex)
  /\ out_mutex' = "rx"
  /\ rxpc' = "ka_write"
  /\ UNCHANGED <<cur_key, step_promises, single_response, partial_results, errors,
                 handles, s, rxTicket, promise_mutex, user, received, dispatched,
                 unresolved, leaked, netError, fault, destroyed, cw, solver, sar>>

\* ... and ends: the reply is written, or std::runtime_error takes the
\* thread to its handler (RxNetworkError)
RxKeepAliveEnd(net, closes) ==
  /\ Running
  /\ rxpc = "ka_write"
  /\ net \in {"ok", "send_throws"}
  /\ closes => net = "send_throws"
  /\ s' = AfterFailure(s, closes)
  /\ out_mutex' = "free"
  /\ rxpc' = IF net = "ok" THEN "recv" ELSE "caught"
  /\ UNCHANGED <<cur_key, step_promises, single_response, partial_results, errors,
                 handles, rxTicket, promise_mutex, user, received, dispatched,
                 unresolved, leaked, netError, fault, destroyed, cw, solver, sar>>

\* ------------------------------------------------------ SolverWorldModel
MaxRetries == 3       \* failed attempts within one sendAndReconnect call

\* The threads that write to the solver's socket
SThreads == Users \cup {"tracker"}

\* sendData stands for sendData, createURI, expireURI, deleteURI,
\* expireURIAttribute and deleteURIAttribute, which lock send_mutex and call
\* sendAndReconnect; addTypes does so inside try / catch (std::runtime_error).
SolverOps == {"sendData", "addTypes"}

\* No sendAndReconnect call in progress.  delays and last are the call's
\* history: the sleeps made, and what the last iteration did
NoCall ==
  [pc |-> "idle", op |-> "none", sent |-> FALSE, first_wait |-> TRUE,
   wait_time |-> 1, delays |-> <<>>, threw |-> FALSE, last |-> "none"]

\* The network may fail the attempt of th as long as the call has retries left
MayFail(th) == Len(sar[th].delays) < MaxRetries

\* A user method: std::unique_lock<std::mutex> lck(send_mutex), then the
\* call of sendAndReconnect with  sent = false, first_wait = true, wait_time = 1
SolverCall(u, op) ==
  /\ sar[u].pc = "idle"
  /\ CanLock(solver.send_mutex)
  /\ solver' = [solver EXCEPT !.send_mutex = u]
  /\ sar' = [sar EXCEPT ![u] = [NoCall EXCEPT !.pc = "loop", !.op = op]]
  /\ UNCHANGED <<cvars, out_mutex, cw>>

\* trackOnDemands: a keep_alive message was read
TrackerKeepAlive ==
  /\ solver.tracker = "recv"
  /\ ~solver.interrupted
  /\ solver' = [solver EXCEPT !.tracker = "busy"]
  /\ sar' = [sar EXCEPT !["tracker"] =
               [NoCall EXCEPT !.pc = "wait_lock", !.op = "keep_alive"]]
  /\ UNCHANGED <<cvars, out_mutex, cw>>

\* trackOnDemands: std::unique_lock<std::mutex> lck(send_mutex), and the call
TrackerLock ==
  /\ sar["tracker"].pc = "wait_lock"
  /\ CanLock(solver.send_mutex)
  /\ solver' = [solver EXCEPT !.send_mutex = "tracker"]
  /\ sar' = [sar EXCEPT !["tracker"].pc = "loop"]
  /\ UNCHANGED <<cvars, out_mutex, cw>>

\* trackOnDemands leaves its loop: interrupted was set, or getNextMessage
\* threw and the exception was caught
TrackerExit(failed, closes) ==
  /\ solver.tracker = "recv"
  /\ failed \/ solver.interrupted
  /\ closes => failed
  /\ solver' = [solver EXCEPT !.tracker = "exited",
                              !.s = AfterFailure(@, closes)]
  /\ UNCHANGED <<cvars, out_mutex, cw, sar>>

\* sendAndReconnect, the head of one iteration of while (not sent): the
\* return when sent; else the sleep of every iteration but the first, and
\* the test of s that leads to reconnect() or to s.send(buff)
sendAndReconnect(th) ==
  LET c == sar[th] IN
  /\ c.pc = "loop"
  /\ c.sent \/ Len(c.delays) <= MaxRetries
  /\ IF c.sent
     THEN sar' = [sar EXCEPT ![th].pc = "done"]
     ELSE sar' = [sar EXCEPT
            ![th].delays = IF c.first_wait THEN @ ELSE Append(@, c.wait_time),
            ![th].wait_time = IF c.first_wait THEN @ ELSE 8,
            ![th].pc = IF solver.s THEN "sending" ELSE "reconnect"]
  /\ UNCHANGED <<cvars, out_mutex, cw, solver>>

\* s.send(buff) has ended: sent = true, or the exception is caught; then
\* first_wait = false
SolverSend(th, net, closes) ==
  /\ sar[th].pc = "sending"
  /\ net \in {"ok", "send_throws"}
  /\ net # "ok" => MayFail(th)
  /\ closes => net = "send_throws"
  /\ solver' = [solver EXCEPT !.s = AfterFailure(@, closes)]
  /\ sar' = [sar EXCEPT ![th].sent = (net = "ok"),
                        ![th].first_wait = FALSE,
                        ![th].last = IF net = "ok" THEN "sent" ELSE "send_failed",
                        ![th].pc = "loop"]
  /\ UNCHANGED <<cvars, out_mutex, cw>>

\* SolverWorldModel::reconnect(), up to the write of the handshake: an open
\* socket is kept; else the connection is made, or false is returned
SolverConnect(th, connects) ==
  /\ sar[th].pc = "reconnect"
  /\ ~connects => MayFail(th)
  /\ IF solver.s \/ connects
     THEN /\ solver' = [solver EXCEPT !.s = TRUE]
          /\ sar' = [sar EXCEPT ![th].pc = "handshake", ![th].last = "reconnect"]
     ELSE /\ sar' = [sar EXCEPT ![th].first_wait = FALSE, ![th].pc = "loop",
                                ![th].last = "reconnect"]
          /\ UNCHANGED solver
  /\ UNCHANGED <<cvars, out_mutex, cw>>

\* reconnect(): s.send(handshake) and s.receive(raw_message) have ended.
\* Their exceptions are caught nowhere in reconnect() or sendAndReconnect;
\* a reply that differs returns false and leaves s as it is.
SolverHandshake(th, net, closes) ==
  /\ sar[th].pc = "handshake"
  /\ net \in {"ok", "refused", "handshake_throws"}
  /\ net # "ok" => MayFail(th)
  /\ closes => net = "handshake_throws"
  /\ solver' = [solver EXCEPT !.s = AfterFailure(@, closes)]
  /\ sar' = [sar EXCEPT ![th] =
       IF net = "ok" THEN [@ EXCEPT !.pc = "announce"]
       ELSE IF net = "refused" THEN [@ EXCEPT !.first_wait = FALSE, !.pc = "loop",
                                              !.last = "mismatch"]
       ELSE [@ EXCEPT !.threw = TRUE, !.pc = "done"]]
  /\ UNCHANGED <<cvars, out_mutex, cw>>

\* reconnect(): s.send(makeTypeAnnounceMsg(types, origin)) has ended; its
\* exception is caught and false returned
SolverAnnounce(th, net, closes) ==
  /\ sar[th].pc = "announce"
  /\ net \in {"ok", "send_throws"}
  /\ net # "ok" => MayFail(th)
  /\ closes => net = "send_throws"
  /\ solver' = [solver EXCEPT !.s = AfterFailure(@, closes)]
  /\ sar' = [sar EXCEPT ![th] =
       IF net = "ok" THEN [@ EXCEPT !.pc = "join"]
       ELSE [@ EXCEPT !.first_wait = FALSE, !.pc = "loop"]]
  /\ UNCHANGED <<cvars, out_mutex, cw>>

\* reconnect(): if (running) { interrupted = true; on_demand_tracker.join()
\* begins.  A thread that joins itself gets std::system_error.
SolverInterrupt(th) ==
  /\ sar[th].pc = "join"
  /\ IF ~solver.running
     THEN /\ sar' = [sar EXCEPT ![th].pc = "spawn"]
          /\ UNCHANGED solver
     ELSE /\ solver' = [solver EXCEPT !.interrupted = TRUE]
          /\ sar' = [sar EXCEPT ![th] =
               IF th = "tracker" THEN [@ EXCEPT !.threw = TRUE, !.pc = "done"]
               ELSE [@ EXCEPT !.pc = "joining"]]
  /\ UNCHANGED <<cvars, out_mutex, cw>>

\* ... the join returns when the tracker's thread function has returned
SolverJoined(th) ==
  /\ sar[th].pc = "joining"
  /\ solver.tracker = "exited"
  /\ sar' = [sar EXCEPT ![th].pc = "spawn"]
  /\ UNCHANGED <<cvars, out_mutex, cw, solver>>

\* reconnect(): running = true; interrupted = false; the new tracker thread;
\* return true.  Then first_wait = false.
SolverSpawn(th) ==
  /\ sar[th].pc = "spawn"
  /\ solver' = [solver EXCEPT !.running = TRUE, !.interrupted = FALSE,
                              !.tracker = "recv"]
  /\ sar' = [sar EXCEPT ![th].first_wait = FALSE, ![th].pc = "loop"]
  /\ UNCHANGED <<cvars, out_mutex, cw>>

\* Control has left sendAndReconnect, by return or by an exception: lck
\* unlocks.  The exception goes on to the user, is swallowed by addTypes, or
\* ends the tracker's thread function in catch (std::exception&).
SolverReturn(th) ==
  /\ sar[th].pc = "done"
  /\ solver' = [solver EXCEPT
       !.send_mutex = "free",
       !.tracker = IF th # "tracker" THEN @
                   ELSE IF sar[th].threw THEN "exited" ELSE "recv"]
  /\ sar' = [sar EXCEPT ![th] = NoCall]
  /\ UNCHANGED <<cvars, out_mutex, cw>>

\* ------------------------------------------- SolverWorldModel: on-demand
MaxDemandMsgs == 3    \* on-demand messages processed in the behaviours of SpecDemand
MaxGateMsgs == 1      \* on-demand messages processed in the behaviours of SpecSolution
MaxUpdates == 2       \* updates in the solution vector of one sendData call
MaxCalls == 1         \* sendData calls in the behaviours of SpecDemand
MaxRegexMsgs == 4     \* on-demand messages processed in the behaviours of SpecRegex

\* UTF-16 code units.  Two of them differ from an ASCII character by a
\* multiple of 256: FStroke from "f", and UpperNul from the NUL character.
ChF == 102
ChO == 111
ChDot == 46
ChStar == 42
ChParen == 40
ChFStroke == 358
ChUpperNul == 256
CharWidth == 256

\* static std::string toString(const std::u16string& str): each char16_t is
\* converted to a char
toString(str) == [i \in 1..Len(str) |-> str[i] % CharWidth]

\* std::string::c_str() as a C function reads it: the characters before the
\* first NUL
RECURSIVE c_str(_)
c_str(str) ==
  IF str = <<>> \/ Head(str) = 0 THEN <<>>
  ELSE <<Head(str)>> \o c_str(Tail(str))

\* The patterns that the world model sends, and the targets of updates
Requests == { <<ChF, ChO>>, <<ChO>>, <<ChF, ChDot, ChStar>>, <<ChParen>> }
Targets == { <<ChF, ChO>>, <<ChF, ChO, ChO>>, <<ChFStroke, ChO>>, <<ChF, ChUpperNul>> }

\* regcomp(&exp, pattern, REG_EXTENDED) for patterns made of ordinary
\* characters, ".", a postfix "*" and "(": the items of the expression, or
\* an error for a parenthesis that is not closed
RECURSIVE ParseItems(_)
ParseItems(p) ==
  IF p = <<>> THEN <<>>
  ELSE IF Len(p) >= 2 /\ p[2] = ChStar
       THEN <<[ch |-> p[1], star |-> TRUE]>> \o ParseItems(SubSeq(p, 3, Len(p)))
       ELSE <<[ch |-> p[1], star |-> FALSE]>> \o ParseItems(Tail(p))

regcomp(p) ==
  IF \E i \in 1..Len(p) : p[i] = ChParen
  THEN [err |-> 1, items |-> <<>>]
  ELSE [err |-> 0, items |-> ParseItems(p)]

ItemMatches(item, c) == item.ch = ChDot \/ item.ch = c

\* The positions where a match of items[k..] that starts at pos can end
RECURSIVE MatchEnds(_, _, _, _)
MatchEnds(items, k, str, pos) ==
  IF k > Len(items) THEN {pos}
  ELSE LET item == items[k]
           step == pos < Len(str) /\ ItemMatches(item, str[pos + 1])
       IN IF item.star
          THEN MatchEnds(items, k + 1, str, pos)
               \cup (IF step THEN MatchEnds(items, k, str, pos + 1) ELSE {})
          ELSE IF step THEN MatchEnds(items, k + 1, str, pos + 1) ELSE {}

Largest(S) == CHOOSE x \in S : \A y \in S : y <= x
Smallest(S) == CHOOSE x \in S : \A y \in S : x <= y

\* regexec(&exp, str, 1, &pmatch, 0): the leftmost match, and the longest of
\* the matches that start there; REG_NOMATCH is 1
regexec(items, str) ==
  LET starts == {i \in 0..Len(str) : MatchEnds(items, 1, str, i) # {}}
  IN IF starts = {} THEN [match |-> 1, rm_so |-> 0 - 1, rm_eo |-> 0 - 1]
     ELSE [match |-> 0, rm_so |-> Smallest(starts),
           rm_eo |-> Largest(MatchEnds(items, 1, str, Smallest(starts)))]

\* OnDemandArgs ta: ta.request = request; regcomp(&ta.exp,
\* toString(ta.request).c_str(), REG_EXTENDED); ta.valid = (0 == err)
OnDemandArgs(request) ==
  LET c == regcomp(c_str(toString(request)))
  IN [request |-> request, exp |-> c.items, valid |-> c.err = 0]

\* The lambda of std::any_of in sendData
PatternGate(ta, target) ==
  IF ~ta.valid THEN FALSE
  ELSE LET m == regexec(ta.exp, c_str(toString(target)))
       IN m.match = 0 /\ m.rm_so = 0 /\ Len(target) = m.rm_eo

\* The types of updates: the constructor registers t1 (on-demand) and t2
\* (not on-demand); t3 is never registered
TypeNames == {"t1", "t2", "t3"}
AliasIds == 1..2

\* The aliases that the registry can come to hold
MaxTypes == 4
MaxAddCalls == 2   \* calls of addTypes by a user thread

NoAlias == 0

\* An absent key of on_demand_on, and  std::multiset<OnDemandArgs>()
NoSet == [present |-> FALSE, set |-> EmptyBag]
EmptySet == [present |-> TRUE, set |-> EmptyBag]

\* A registration that gives a type declared before its old alias again
RegisteredReuse(reg, type, on_demand) ==
  LET alias == IF reg.aliases[type] # NoAlias THEN reg.aliases[type]
               ELSE Len(reg.types) + 1
  IN [types |-> Append(reg.types,
                       [alias |-> alias, type |-> type, on_demand |-> on_demand]),
      aliases |-> [reg.aliases EXCEPT ![type] = alias],
      on_demand_on |-> IF on_demand /\ ~reg.on_demand_on[alias].present
                       THEN [reg.on_demand_on EXCEPT ![alias] = EmptySet]
                       ELSE reg.on_demand_on]

\* The loop body of the constructor and of addTypes: AliasType
\* at{types.size() + 1, type, on_demand}; types.push_back(at);
\* aliases[at.type] = at.alias; an on-demand type gets an empty multiset
\* unless on_demand_on has its alias already
Registered(reg, type, on_demand) ==
  LET alias == Len(reg.types) + 1
  IN [types |-> Append(reg.types,
                       [alias |-> alias, type |-> type, on_demand |-> on_demand]),
      aliases |-> [reg.aliases EXCEPT ![type] = alias],
      on_demand_on |-> IF on_demand /\ ~reg.on_demand_on[alias].present
                       THEN [reg.on_demand_on EXCEPT ![alias] = EmptySet]
                       ELSE reg.on_demand_on]

NoTypes ==
  [types |-> <<>>, aliases |-> [t \in TypeNames |-> NoAlias],
   on_demand_on |-> [a \in 1..MaxTypes |-> NoSet]]

NoSendData == [pc |-> "idle", calls |-> 0, n |-> 0, sds |-> <<>>,
               last |-> [type |-> "none", target |-> <<>>, sent |-> FALSE]]

NoneTracked == [a \in AliasIds |-> [r \in Requests |-> [start |-> 0, stop |-> 0]]]

\* SolverWorldModel::SolverWorldModel(ip, port, types, origin) with
\* types = {(t1, true), (t2, false)}
DemandInit ==
  LET reg == Registered(Registered(NoTypes, "t1", TRUE), "t2", FALSE)
  IN /\ types = reg.types
     /\ aliases = reg.aliases
     /\ on_demand_on = reg.on_demand_on
     /\ sdcall = [u \in Users |-> NoSendData]
     /\ tracked = NoneTracked

TrackerReads ==
  /\ solver.tracker = "recv"
  /\ ~solver.interrupted

Processed ==
  LET RECURSIVE Sum(_)
      Sum(S) == IF S = {} THEN 0
                ELSE LET x == CHOOSE y \in S : TRUE
                     IN tracked[x[1]][x[2]].start + tracked[x[1]][x[2]].stop
                        + Sum(S \ {x})
  IN Sum(AliasIds \X Requests)

\* trackOnDemands, start_on_demand naming alias and request, under
\* trans_mutex: regcomp(&ta.exp, ...), on_demand_on[alias].insert(ta)
StartOnDemand(alias, request, limit) ==
  /\ TrackerReads
  /\ Processed < limit
  /\ on_demand_on' = [on_demand_on EXCEPT ![alias] =
       [present |-> TRUE, set |-> @.set (+) SetToBag({OnDemandArgs(request)})]]
  /\ compiled' = IF OnDemandArgs(request).valid THEN compiled + 1 ELSE compiled
  /\ tracked' = [tracked EXCEPT ![alias][request].start = @ + 1]
  /\ UNCHANGED <<cvars, wvars, avars, types, aliases, sdcall>>

\* A stop_on_demand that erases every entry with the request, as
\* uri_set.erase(value) would
StopOnDemandEraseAll(alias, request, limit) ==
  LET uri_set == on_demand_on[alias].set
      found == {ta \in BagToSet(uri_set) : ta.request = request}
  IN /\ TrackerReads
     /\ Processed < limit
     /\ on_demand_on' =
          IF on_demand_on[alias].present /\ found # {}
          THEN [on_demand_on EXCEPT ![alias].set =
                  [ta \in (DOMAIN uri_set) \ found |-> uri_set[ta]]]
          ELSE on_demand_on
     /\ compiled' = compiled
     /\ tracked' = [tracked EXCEPT ![alias][request].stop = @ + 1]
     /\ UNCHANGED <<cvars, wvars, avars, types, aliases, sdcall>>

\* trackOnDemands, stop_on_demand naming alias and request, under
\* trans_mutex: when on_demand_on has the alias, find_if the first entry with
\* ta.request == request, regfree its expression if it is valid, and erase
\* that entry
StopOnDemand(alias, request, limit) ==
  LET uri_set == on_demand_on[alias].set
      found == {ta \in BagToSet(uri_set) : ta.request = request}
  IN /\ TrackerReads
     /\ Processed < limit
     /\ on_demand_on' =
          IF on_demand_on[alias].present /\ found # {}
          THEN [on_demand_on EXCEPT ![alias].set =
                  @ (-) SetToBag({CHOOSE ta \in found : TRUE})]
          ELSE on_demand_on
     /\ compiled' = IF on_demand_on[alias].present /\ found # {}
                       /\ (CHOOSE ta \in found : TRUE).valid
                    THEN compiled - 1 ELSE compiled
     /\ tracked' = [tracked EXCEPT ![alias][request].stop = @ + 1]
     /\ UNCHANGED <<cvars, wvars, avars, types, aliases, sdcall>>

\* SolverWorldModel::~SolverWorldModel:
\*   if (running) { interrupted = true; on_demand_tracker.join() begins
\* The user destroys the object when none of its methods is running.
SolverDestructor ==
  /\ solver_dtor = "none"
  /\ \A u \in Users : sar[u].pc = "idle" /\ sdcall[u].pc = "idle"
  /\ solver' = [solver EXCEPT !.interrupted = IF solver.running THEN TRUE ELSE @]
  /\ solver_dtor' = "join"
  /\ UNCHANGED <<cvars, out_mutex, cw, sar, dvars, avars, compiled>>

\* ... the join has returned and the members are destroyed: on_demand_on
\* destroys its multisets, and nothing calls regfree for their entries
SolverDestructorEnd ==
  /\ solver_dtor = "join"
  /\ solver.running => solver.tracker = "exited"
  /\ on_demand_on' = [a \in DOMAIN on_demand_on |-> NoSet]
  /\ solver_dtor' = "done"
  /\ UNCHANGED <<cvars, wvars, avars, types, aliases, sdcall, tracked, compiled>>

\* sendData(solution, create_uris) is called: std::vector<SolutionData> sds
SendDataBegin(u) ==
  /\ sdcall[u].pc = "idle"
  /\ sdcall[u].calls < MaxCalls
  /\ sar[u].pc = "idle"
  /\ sdcall' = [sdcall EXCEPT ![u] = [NoSendData EXCEPT !.pc = "filter",
                                                         !.calls = sdcall[u].calls]]
  /\ UNCHANGED <<cvars, wvars, avars, types, aliases, on_demand_on, tracked>>

\* Whether sendData puts an update of this type and target into sds
Passes(type, target) ==
  /\ aliases[type] # NoAlias
  /\ LET alias == aliases[type]
     IN \/ ~on_demand_on[alias].present
        \/ \E ta \in BagToSet(on_demand_on[alias].set) : PatternGate(ta, target)

\* One iteration of the for loop of sendData, under trans_mutex, for the
\* next update of the solution vector
SendDataFilter(u, type, target) ==
  /\ sdcall[u].pc = "filter"
  /\ sdcall[u].n < MaxUpdates
  /\ sdcall' = [sdcall EXCEPT
       ![u].n = @ + 1,
       ![u].sds = IF Passes(type, target)
                  THEN Append(@, [alias |-> aliases[type], target |-> target])
                  ELSE @,
       ![u].last = [type |-> type, target |-> target,
                    sent |-> Passes(type, target)]]
  /\ UNCHANGED <<cvars, wvars, avars, types, aliases, on_demand_on, tracked>>

\* The end of the solution vector: std::unique_lock<std::mutex>
\* lck(send_mutex); sendAndReconnect(makeSolutionMsg(create_uris, sds))
SendDataSend(u) ==
  /\ sdcall[u].pc = "filter"
  /\ SolverCall(u, "sendData")
  /\ sdcall' = [sdcall EXCEPT ![u].pc = "send"]
  /\ UNCHANGED <<avars, types, aliases, on_demand_on, tracked>>

\* Control leaves sendData, by return or by the exception that left
\* sendAndReconnect
SendDataReturn(u) ==
  /\ sdcall[u].pc = "send"
  /\ SolverReturn(u)
  /\ sdcall' = [sdcall EXCEPT ![u].pc = "idle", ![u].calls = @ + 1]
  /\ UNCHANGED <<avars, types, aliases, on_demand_on, tracked>>

\* addTypes(new_types) is called: std::vector<AliasType> new_aliases
addTypes(u) ==
  /\ sdcall[u].pc = "idle"
  /\ sdcall[u].calls < MaxAddCalls
  /\ sar[u].pc = "idle"
  /\ sdcall' = [sdcall EXCEPT ![u] = [NoSendData EXCEPT !.pc = "register",
                                                         !.calls = sdcall[u].calls]]
  /\ UNCHANGED <<cvars, wvars, avars, types, aliases, on_demand_on, tracked>>

\* One iteration of the for loop of addTypes, which takes no mutex: the
\* type gets alias types.size() + 1 and new_aliases.push_back(at)
AddTypesRegister(u, type, on_demand) ==
  LET reg == Registered([types |-> types, aliases |-> aliases,
                         on_demand_on |-> on_demand_on], type, on_demand)
  IN /\ sdcall[u].pc = "register"
     /\ sdcall[u].n < MaxUpdates
     /\ Len(types) < MaxTypes
     /\ types' = reg.types
     /\ aliases' = reg.aliases
     /\ on_demand_on' = reg.on_demand_on
     /\ sdcall' = [sdcall EXCEPT ![u].n = @ + 1,
                                 ![u].sds = Append(@, reg.types[Len(reg.types)])]
     /\ UNCHANGED <<cvars, wvars, avars, tracked>>

\* The end of new_types: std::unique_lock<std::mutex> lck(send_mutex);
\* sendAndReconnect(makeTypeAnnounceMsg(new_aliases, origin)); control
\* leaves addTypes as it leaves sendData
AddTypesAnnounce(u) ==
  /\ sdcall[u].pc = "register"
  /\ SolverCall(u, "addTypes")
  /\ sdcall' = [sdcall EXCEPT ![u].pc = "send"]
  /\ UNCHANGED <<avars, types, aliases, on_demand_on, tracked>>
\* ----------------------------------------------------- SolverAggregator
MaxOps == 3           \* calls of addRules, updateRules and disconnect in SpecAgg
MaxCallbackOps == 2   \* calls of these methods in SpecCallback
MaxFaults == 1        \* network failures met by the worker threads
MaxSamples == 2       \* messages that the worker threads receive
MaxSubOps == 2        \* calls of addRules and updateRules in SpecSub

\* const std::vector<NetTarget>& servers
Servers == <<"T1", "T2">>
AggTargets == {Servers[i] : i \in 1..Len(Servers)}

AggOps == {"addRules", "updateRules", "disconnect"}

\* The messages that getNextMessage returns: none when it was woken by the
\* interrupt, a frame of at most 4 bytes, subscription_response, and a
\* server_sample that decodes to a valid or to an invalid sample
AggMsgs == {"short", "subscription_response", "sample_valid", "sample_invalid"}

\* No thread for the target; faults and got count what the target's
\* connections have met so far
NoWorker == [pc |-> "none", sent_subscriptions |-> 0, sub |-> 0,
             msg |-> "none", faults |-> 0, got |-> 0]

\* The thread has been joined
Joined(w) == [NoWorker EXCEPT !.faults = w.faults, !.got = w.got]

\* std::thread(grailAggregatorThread, ...): the thread is at the test of the
\* outer while
NewWorker(w) == [Joined(w) EXCEPT !.pc = "outer"]

RECURSIVE Total(_, _)
Total(field, ts) ==
  IF ts = {} THEN 0
  ELSE LET t == CHOOSE x \in ts : TRUE
       IN worker[t][field] + Total(field, ts \ {t})

CtlIdle == [pc |-> "idle", op |-> "none", i |-> 0, ops |-> <<>>]

\* SolverAggregator::SolverAggregator: interrupted = none, no connection
AggInit ==
  /\ subscriptions = <<>>
  /\ server_threads = <<>>
  /\ interrupted = "none"
  /\ callback_mutex = "free"
  /\ worker = [t \in AggTargets |-> NoWorker]
  /\ ctl = CtlIdle
  /\ wire = [t \in AggTargets |-> <<>>]

\* (bool&)interrupted, as getNextMessage polls it: none is 0
Truthy(i) == i # "none"

\* The socket cs of the worker goes out of scope
Disconnected(t) == [wire EXCEPT ![t] = Append(@, "disconnect")]

WorkerMayFail(t) == Total("faults", AggTargets) < MaxFaults

\* catch (std::exception&) of the worker, after an exception of the socket
Caught(w) == [w EXCEPT !.pc = "sleep", !.faults = @ + 1]

\* while (interrupt_type::close_connection != interrupted), the outer loop
WorkerOuter(t) ==
  /\ worker[t].pc = "outer"
  /\ worker' = [worker EXCEPT ![t].pc =
                  IF interrupted # "close_connection" THEN "connect" ELSE "exited"]
  /\ UNCHANGED <<cvars, wvars, dvars, subscriptions, server_threads,
                 interrupted, callback_mutex, ctl, wire>>

\* ClientSocket cs(AF_INET, SOCK_STREAM, 0, port, ip); if (cs)
WorkerConnect(t, connects) ==
  /\ worker[t].pc = "connect"
  /\ ~connects => WorkerMayFail(t)
  /\ worker' = [worker EXCEPT ![t] =
                  IF connects THEN [@ EXCEPT !.pc = "handshake"] ELSE Caught(@)]
  /\ UNCHANGED <<cvars, wvars, dvars, subscriptions, server_threads,
                 interrupted, callback_mutex, ctl, wire>>

\* cs.send(handshake); cs.receive(raw_message); a reply that differs makes
\* the thread function return; else sent_subscriptions = 0 and
\* sub = subscriptions.begin()
WorkerHandshake(t, net) ==
  /\ worker[t].pc = "handshake"
  /\ net \in {"ok", "refused", "handshake_throws"}
  /\ net # "ok" => WorkerMayFail(t)
  /\ worker' = [worker EXCEPT ![t] =
       IF net = "ok"
       THEN [@ EXCEPT !.pc = "subscribe", !.sent_subscriptions = 0, !.sub = 1]
       ELSE IF net = "refused" THEN [@ EXCEPT !.pc = "exited", !.faults = @ + 1]
       ELSE Caught(@)]
  /\ wire' = IF net = "ok" THEN [wire EXCEPT ![t] = Append(@, "handshake")]
             ELSE IF net = "refused"
                  THEN [wire EXCEPT ![t] = @ \o <<"handshake", "disconnect">>]
                  ELSE wire
  /\ UNCHANGED <<cvars, wvars, dvars, subscriptions, server_threads,
                 interrupted, callback_mutex, ctl>>

\* One iteration of a for loop over subscriptions that ends at
\* subscriptions.end(): cs.send(makeSubscribeReqMsg(*sub));
\* ++sent_subscriptions; after the loop, control goes to pc after
SendSubscriptions(t, throws, after) ==
  LET w == worker[t] IN
  /\ throws => WorkerMayFail(t) /\ w.sub <= Len(subscriptions)
  /\ IF w.sub > Len(subscriptions)
     THEN /\ worker' = [worker EXCEPT ![t].pc = after]
          /\ UNCHANGED wire
     ELSE IF throws
     THEN /\ worker' = [worker EXCEPT ![t] = Caught(@)]
          /\ wire' = Disconnected(t)
     ELSE /\ worker' = [worker EXCEPT ![t].sub = @ + 1,
                                      ![t].sent_subscriptions = @ + 1]
          /\ wire' = [wire EXCEPT ![t] = Append(@, subscriptions[w.sub])]
  /\ UNCHANGED <<cvars, wvars, dvars, subscriptions, server_threads,
                 interrupted, callback_mutex, ctl>>

\* for (auto sub = subscriptions.begin(); sub != subscriptions.end(); ++sub)
WorkerSubscribe(t, throws) ==
  /\ worker[t].pc = "subscribe"
  /\ SendSubscriptions(t, throws, "inner")

\* while (interrupted != interrupt_type::close_connection), the inner loop;
\* when it ends cs is destroyed and control reaches sleep(1)
WorkerInner(t) ==
  /\ worker[t].pc = "inner"
  /\ IF interrupted # "close_connection"
     THEN /\ worker' = [worker EXCEPT ![t].pc = "recv"]
          /\ UNCHANGED wire
     ELSE /\ worker' = [worker EXCEPT ![t].pc = "sleep"]
          /\ wire' = Disconnected(t)
  /\ UNCHANGED <<cvars, wvars, dvars, subscriptions, server_threads,
                 interrupted, callback_mutex, ctl>>

\* s.getNextMessage((bool&)interrupted) returns a message of the peer
WorkerReceive(t, msg) ==
  /\ worker[t].pc = "recv"
  /\ Total("got", AggTargets) < MaxSamples
  /\ worker' = [worker EXCEPT ![t].pc = "dispatch", ![t].msg = msg,
                              ![t].got = @ + 1]
  /\ UNCHANGED <<cvars, wvars, dvars, subscriptions, server_threads,
                 interrupted, callback_mutex, ctl, wire>>

\* s.getNextMessage((bool&)interrupted) returns without a message because
\* the interrupt is set
WorkerWoken(t) ==
  /\ worker[t].pc = "recv"
  /\ Truthy(interrupted)
  /\ worker' = [worker EXCEPT ![t].pc = "dispatch", ![t].msg = "none"]
  /\ UNCHANGED <<cvars, wvars, dvars, subscriptions, server_threads,
                 interrupted, callback_mutex, ctl, wire>>

\* s.getNextMessage throws: the connection has failed
WorkerReceiveFails(t) ==
  /\ worker[t].pc = "recv"
  /\ WorkerMayFail(t)
  /\ worker' = [worker EXCEPT ![t] = Caught(@)]
  /\ wire' = Disconnected(t)
  /\ UNCHANGED <<cvars, wvars, dvars, subscriptions, server_threads,
                 interrupted, callback_mutex, ctl>>

\* The message is handled by its type: only a server_sample whose sample is
\* valid leads to the callback
WorkerDispatch(t) ==
  /\ worker[t].pc = "dispatch"
  /\ worker' = [worker EXCEPT ![t].pc =
                  IF worker[t].msg = "sample_valid" THEN "cb_lock" ELSE "check"]
  /\ UNCHANGED <<cvars, wvars, dvars, subscriptions, server_threads,
                 interrupted, callback_mutex, ctl, wire>>

\* A callback entry that does not take the mutex
CallbackLockUnguarded(t) ==
  /\ worker[t].pc = "cb_lock"
  /\ callback_mutex' = t
  /\ worker' = [worker EXCEPT ![t].pc = "callback"]
  /\ UNCHANGED <<cvars, wvars, dvars, subscriptions, server_threads,
                 interrupted, ctl, wire>>

\* std::unique_lock<std::mutex> lck(callback_mutex); packCallback(sample)
\* begins
CallbackLock(t) ==
  /\ worker[t].pc = "cb_lock"
  /\ CanLock(callback_mutex)
  /\ callback_mutex' = t
  /\ worker' = [worker EXCEPT ![t].pc = "callback"]
  /\ UNCHANGED <<cvars, wvars, dvars, subscriptions, server_threads,
                 interrupted, ctl, wire>>

\* packCallback(sample) returns and lck unlocks
CallbackReturn(t) ==
  /\ worker[t].pc = "callback"
  /\ callback_mutex' = "free"
  /\ worker' = [worker EXCEPT ![t].pc = "check"]
  /\ UNCHANGED <<cvars, wvars, dvars, subscriptions, server_threads,
                 interrupted, ctl, wire>>

\* if (interrupted == interrupt_type::add_subscriptions), with
\* sub = subscriptions.begin() + sent_subscriptions
WorkerCheck(t) ==
  /\ worker[t].pc = "check"
  /\ worker' = [worker EXCEPT ![t] =
       IF interrupted = "add_subscriptions"
       THEN [@ EXCEPT !.pc = "add", !.sub = worker[t].sent_subscriptions + 1]
       ELSE [@ EXCEPT !.pc = "inner"]]
  /\ UNCHANGED <<cvars, wvars, dvars, subscriptions, server_threads,
                 interrupted, callback_mutex, ctl, wire>>

\* for (auto sub = subscriptions.begin() + sent_subscriptions; ...)
WorkerAdd(t, throws) ==
  /\ worker[t].pc = "add"
  /\ SendSubscriptions(t, throws, "reset")

\* subscriptions.begin() + sent_subscriptions lies beyond subscriptions.end()
\* when the list has become shorter than sent_subscriptions: the iterator
\* is invalid and sub != subscriptions.end() does not end the loop, which
\* reads beyond the storage of the vector.  The process may end here;
\* WorkerAdd is the outcome in which the loop is left at once.
WorkerOvershoots(t) ==
  /\ worker[t].pc = "add"
  /\ worker[t].sub > Len(subscriptions) + 1
  /\ worker' = [worker EXCEPT ![t].pc = "undefined"]
  /\ UNCHANGED <<cvars, wvars, dvars, subscriptions, server_threads,
                 interrupted, callback_mutex, ctl, wire>>

\* interrupted = interrupt_type::none
WorkerReset(t) ==
  /\ worker[t].pc = "reset"
  /\ interrupted' = "none"
  /\ worker' = [worker EXCEPT ![t].pc = "inner"]
  /\ UNCHANGED <<cvars, wvars, dvars, subscriptions, server_threads,
                 callback_mutex, ctl, wire>>

\* sleep(1) at the end of the outer loop's body
WorkerSleep(t) ==
  /\ worker[t].pc = "sleep"
  /\ worker' = [worker EXCEPT ![t].pc = "outer"]
  /\ UNCHANGED <<cvars, wvars, dvars, subscriptions, server_threads,
                 interrupted, callback_mutex, ctl, wire>>

\* The subscription that the next call passes: the calls pass s1, s2, ...
Rules == <<"s1", "s2", "s3">>
NextRule == Rules[Cardinality({i \in 1..Len(ctl.ops) : ctl.ops[i] # "disconnect"}) + 1]

\* A call whose updateRules keeps the old subscriptions
AggCallKeepRules(op, limit) ==
  /\ ctl.pc = "idle"
  /\ Len(ctl.ops) < limit
  /\ ctl' = [ctl EXCEPT !.op = op, !.ops = Append(@, op),
                        !.pc = IF op = "addRules" THEN "add_test" ELSE "set_close"]
  /\ subscriptions' = IF op = "disconnect" THEN subscriptions
                      ELSE Append(subscriptions, NextRule)
  /\ UNCHANGED <<cvars, wvars, dvars, server_threads, interrupted,
                 callback_mutex, worker, wire>>

\* The user thread calls a method.  addRules: subscriptions.push_back under
\* sub_mutex.  updateRules: subscriptions = {subscription} under sub_mutex,
\* then disconnect().  disconnect: see below.
AggCall(op, limit) ==
  /\ ctl.pc = "idle"
  /\ Len(ctl.ops) < limit
  /\ ctl' = [ctl EXCEPT !.op = op, !.ops = Append(@, op),
                        !.pc = IF op = "addRules" THEN "add_test" ELSE "set_close"]
  /\ subscriptions' = IF op = "addRules" THEN Append(subscriptions, NextRule)
                      ELSE IF op = "updateRules" THEN <<NextRule>>
                      ELSE subscriptions
  /\ UNCHANGED <<cvars, wvars, dvars, server_threads, interrupted,
                 callback_mutex, worker, wire>>

\* addRules and updateRules, std::unique_lock<std::mutex> lck(sub_mutex): the
\* user thread has the lock and is about to change the list
RulesLock(op, limit) ==
  /\ ctl.pc = "idle"
  /\ Len(ctl.ops) < limit
  /\ op \in {"addRules", "updateRules"}
  /\ CanLock(sub_mutex)
  /\ sub_mutex' = "ctl"
  /\ ctl' = [ctl EXCEPT !.op = op, !.ops = Append(@, op), !.pc = "modify"]
  /\ UNCHANGED <<cvars, wvars, dvars, subscriptions, server_threads, interrupted,
                 callback_mutex, worker, wire>>

\* subscriptions.push_back(subscription), or subscriptions = {subscription},
\* and the unlock at the end of the block
RulesModify ==
  LET rule == Rules[Cardinality({i \in 1..Len(ctl.ops) : ctl.ops[i] # "disconnect"})]
  IN
  /\ ctl.pc = "modify"
  /\ subscriptions' = IF ctl.op = "addRules" THEN Append(subscriptions, rule)
                      ELSE <<rule>>
  /\ sub_mutex' = "free"
  /\ ctl' = [ctl EXCEPT !.pc = IF ctl.op = "addRules" THEN "add_test" ELSE "set_close"]
  /\ UNCHANGED <<cvars, wvars, dvars, server_threads, interrupted,
                 callback_mutex, worker, wire>>

\* The worker's loop over the list, which takes no lock, runs while the user
\* thread is changing the list: a data race, and an iterator into storage
\* that push_back or the assignment may have released.  The process may end
\* here; WorkerSubscribe and WorkerAdd are the outcome in which it goes on.
WorkerRaces(t) ==
  /\ worker[t].pc \in {"subscribe", "add"}
  /\ sub_mutex = "ctl"
  /\ worker' = [worker EXCEPT ![t].pc = "undefined"]
  /\ UNCHANGED <<cvars, wvars, dvars, subscriptions, server_threads,
                 interrupted, callback_mutex, ctl, wire>>

\* addRules: if (server_threads.empty()) interrupted = none, and the
\* threads are made; else interrupted = add_subscriptions
addRules ==
  /\ ctl.pc = "add_test"
  /\ IF server_threads = <<>>
     THEN /\ interrupted' = "none"
          /\ ctl' = [ctl EXCEPT !.pc = "spawn", !.i = 1]
     ELSE /\ interrupted' = "add_subscriptions"
          /\ ctl' = [ctl EXCEPT !.pc = "idle", !.op = "none"]
  /\ UNCHANGED <<cvars, wvars, dvars, subscriptions, server_threads,
                 callback_mutex, worker, wire>>

\* One iteration of  for (auto server = servers.begin(); ...)
\* server_threads.push_back(std::thread(grailAggregatorThread, ...)); after
\* the loop the method returns
Spawn ==
  /\ ctl.pc = "spawn"
  /\ IF ctl.i <= Len(Servers)
     THEN /\ server_threads' = Append(server_threads, Servers[ctl.i])
          /\ worker' = [worker EXCEPT ![Servers[ctl.i]] = NewWorker(@)]
          /\ ctl' = [ctl EXCEPT !.i = @ + 1]
     ELSE /\ ctl' = [ctl EXCEPT !.pc = "idle", !.op = "none"]
          /\ UNCHANGED <<server_threads, worker>>
  /\ UNCHANGED <<cvars, wvars, dvars, subscriptions, interrupted,
                 callback_mutex, wire>>

\* disconnect(): interrupted = interrupt_type::close_connection
disconnect ==
  /\ ctl.pc = "set_close"
  /\ interrupted' = "close_connection"
  /\ ctl' = [ctl EXCEPT !.pc = "join", !.i = 1]
  /\ UNCHANGED <<cvars, wvars, dvars, subscriptions, server_threads,
                 callback_mutex, worker, wire>>

\* A disconnect whose loop is not followed by server_threads.clear()
JoinKeepList ==
  /\ ctl.pc = "join"
  /\ IF ctl.i <= Len(server_threads)
     THEN /\ worker[server_threads[ctl.i]].pc \in {"exited", "none"}
          /\ worker' = [worker EXCEPT ![server_threads[ctl.i]] = Joined(@)]
          /\ ctl' = [ctl EXCEPT !.i = @ + 1]
          /\ UNCHANGED server_threads
     ELSE /\ UNCHANGED server_threads
          /\ ctl' = IF ctl.op = "updateRules" THEN [ctl EXCEPT !.pc = "upd_reset"]
                    ELSE [ctl EXCEPT !.pc = "idle", !.op = "none"]
          /\ UNCHANGED worker
  /\ UNCHANGED <<cvars, wvars, dvars, subscriptions, interrupted,
                 callback_mutex, wire>>

\* disconnect(): one iteration of  for (std::thread& t : server_threads)
\* t.join(), which returns when the thread function has returned; after
\* the loop server_threads.clear(), and disconnect returns
Join ==
  /\ ctl.pc = "join"
  /\ IF ctl.i <= Len(server_threads)
     THEN /\ worker[server_threads[ctl.i]].pc = "exited"
          /\ worker' = [worker EXCEPT ![server_threads[ctl.i]] = Joined(@)]
          /\ ctl' = [ctl EXCEPT !.i = @ + 1]
          /\ UNCHANGED server_threads
     ELSE /\ server_threads' = <<>>
          /\ ctl' = IF ctl.op = "updateRules" THEN [ctl EXCEPT !.pc = "upd_reset"]
                    ELSE [ctl EXCEPT !.pc = "idle", !.op = "none"]
          /\ UNCHANGED worker
  /\ UNCHANGED <<cvars, wvars, dvars, subscriptions, interrupted,
                 callback_mutex, wire>>

\* updateRules, after disconnect(): interrupted = interrupt_type::none
updateRules ==
  /\ ctl.pc = "upd_reset"
  /\ interrupted' = "none"
  /\ ctl' = [ctl EXCEPT !.pc = "spawn", !.i = 1]
  /\ UNCHANGED <<cvars, wvars, dvars, subscriptions, server_threads,
                 callback_mutex, worker, wire>>
\* ------------------------------------------------------- specification
\* The solver after its constructor: reconnect() has succeeded and started
\* the tracker (ok), or failed at one of its steps, with the socket closed or
\* open (after a handshake or a type announcement that failed).
SolverAfter(ok, open) ==
  [s |-> open, running |-> ok, interrupted |-> FALSE,
   send_mutex |-> "free", tracker |-> IF ok THEN "recv" ELSE "none"]

WriteInit(ok, open) ==
  /\ out_mutex = "free"
  /\ cw = [u \in Users |-> CwIdle]
  /\ solver = SolverAfter(ok, open)
  /\ sar = [th \in SThreads |-> NoCall]

\* The client after its constructor, when cur_key = key = 0, or later when
\* no handle of a request is left: cur_key = key and the outcome of the
\* last reconnect(), a running receive thread or a closed socket.
ClientInit(key) ==
  /\ cur_key = key
  /\ step_promises = <<>>
  /\ single_response = {}
  /\ partial_results = <<>>
  /\ errors = {}
  /\ handles = <<>>
  /\ s \in BOOLEAN
  /\ rxpc = IF s THEN "recv" ELSE "off"
  /\ rxTicket = Key(0, 0)
  /\ promise_mutex = "free"
  /\ user = [u \in Users |-> Idle]
  /\ received = 0
  /\ dispatched = <<>>
  /\ unresolved = {}
  /\ leaked = {}
  /\ netError = {}
  /\ fault = NoFault
  /\ destroyed = FALSE

Init == ClientInit(Key(0, 0)) /\ WriteInit(TRUE, TRUE) /\ DemandInit /\ AggInit /\ AliasInit /\ ResourceInit

\* One user thread issuing requests and using the handles, the receive
\* thread, and the destruction of the connection.
Next ==
  \/ UNCHANGED <<wvars, xvars>> /\ \E kind \in Kinds : AllocRead("u1", kind, MaxRequests)
  \/ UNCHANGED <<wvars, xvars>> /\ AllocIncr("u1")
  \/ UNCHANGED <<wvars, xvars>> /\ makeStepPromise("u1")
  \/ UNCHANGED <<wvars, xvars>> /\ \E net \in NetOutcomes, closes \in BOOLEAN : SendRequest("u1", net, closes)
  \/ UNCHANGED <<wvars, xvars>> /\ \E h \in HandleIds : get(h)
  \/ UNCHANGED <<wvars, xvars>> /\ \E h \in HandleIds, ub \in UBOutcomes : next(h, ub)
  \/ UNCHANGED <<wvars, xvars>> /\ \E h \in HandleIds : markFinishedDrain(h)
  \/ UNCHANGED <<wvars, xvars>> /\ \E h \in HandleIds : markFinishedErase(h)
  \/ UNCHANGED <<wvars, xvars>> /\ \E t \in Addressed, uri \in URIs, ub \in UBOutcomes : RxDataResponse(t, uri, ub)
  \/ UNCHANGED <<wvars, xvars>> /\ \E ub \in UBOutcomes : RxPush(ub)
  \/ UNCHANGED <<wvars, xvars>> /\ \E t \in Addressed, ub \in UBOutcomes : RxRequestComplete(t, ub)
  \/ UNCHANGED <<wvars, xvars>> /\ \E ub \in UBOutcomes, closes \in BOOLEAN : RxNetworkError(ub, closes)
  \/ UNCHANGED <<wvars, xvars>> /\ RxBrokenMessage
  \/ UNCHANGED <<wvars, xvars>> /\ \E net \in NetOutcomes, closes \in BOOLEAN : reconnect(net, closes)
  \/ UNCHANGED <<wvars, xvars>> /\ \E ub \in UBOutcomes : Destructor(ub)

Spec == Init /\ [][Next]_vars


\* The alias tables: the receive thread merging attribute_alias and
\* origin_alias messages and resolving the aliases of data_response
\* messages, for the requests of one user thread.
InitAlias == Init

NextAlias ==
  \/ UNCHANGED <<wvars, xvars>> /\ \E kind \in Kinds : AllocRead("u1", kind, MaxRequests)
  \/ UNCHANGED <<wvars, xvars>> /\ AllocIncr("u1")
  \/ UNCHANGED <<wvars, xvars>> /\ makeStepPromise("u1")
  \/ UNCHANGED <<wvars, xvars>> /\ \E net \in NetOutcomes, closes \in BOOLEAN : SendRequest("u1", net, closes)
  \/ UNCHANGED <<wvars, xvars>> /\ \E h \in HandleIds : get(h)
  \/ UNCHANGED <<wvars, xvars>> /\ \E h \in HandleIds, ub \in UBOutcomes : next(h, ub)
  \/ UNCHANGED rvars /\ \E alias \in AliasNums, name \in AttrNames : RxAttributeAlias(alias, name)
  \/ UNCHANGED rvars /\ \E alias \in AliasNums, origin \in Origins : RxOriginAlias(alias, origin)
  \/ UNCHANGED <<wvars, dvars, avars, rvars>> /\ \E t \in Addressed, uri \in URIs, ub \in UBOutcomes, na \in AliasNums, oa \in AliasNums :
       RxAliasedData(t, uri, ub, na, oa)
  \/ UNCHANGED <<wvars, xvars>> /\ \E ub \in UBOutcomes : RxPush(ub)
  \/ UNCHANGED <<wvars, xvars>> /\ \E t \in Addressed, ub \in UBOutcomes : RxRequestComplete(t, ub)

SpecAlias == InitAlias /\ [][NextAlias]_vars

\* The writes to the client's socket: the user threads in request methods
\* and in reconnect(), the receive thread replying to keep_alive messages.
InitSend == ClientInit(Key(0, 0)) /\ WriteInit(TRUE, TRUE) /\ DemandInit /\ AggInit /\ AliasInit /\ ResourceInit

NextSend ==
  \/ UNCHANGED xvars /\ \E u \in Users : RequestLock(u)
  \/ UNCHANGED xvars /\ \E u \in Users, via \in {"public", "request"}, connects \in BOOLEAN :
       reconnectBegin(u, via, connects)
  \/ UNCHANGED xvars /\ \E u \in Users, net \in NetOutcomes, closes \in BOOLEAN : reconnectEnd(u, net, closes)
  \/ UNCHANGED xvars /\ \E u \in Users : reconnectRefused(u)
  \/ UNCHANGED xvars /\ \E u \in Users : RequestSendBegin(u)
  \/ UNCHANGED xvars /\ \E u \in Users, net \in NetOutcomes, closes \in BOOLEAN : RequestSendEnd(u, net, closes)
  \/ UNCHANGED xvars /\ \E u \in Users : RequestReturn(u)
  \/ UNCHANGED xvars /\ RxKeepAlive
  \/ UNCHANGED xvars /\ RxKeepAliveLock
  \/ UNCHANGED xvars /\ \E net \in NetOutcomes, closes \in BOOLEAN : RxKeepAliveEnd(net, closes)
  \/ UNCHANGED <<wvars, xvars>> /\ \E closes \in BOOLEAN : RxNetworkError("benign", closes)

SpecSend == InitSend /\ [][NextSend]_vars

\* The writes to the solver's socket: the user threads in sendData, the URI
\* operations and addTypes, the tracker replying to keep_alive messages.
InitSolver ==
  /\ ClientInit(Key(0, 0)) /\ s
  /\ \E ok \in BOOLEAN, open \in BOOLEAN : (ok => open) /\ WriteInit(ok, open)
  /\ DemandInit
  /\ AggInit /\ AliasInit /\ ResourceInit

NextSolver ==
  \/ UNCHANGED xvars /\ \E u \in Users, op \in SolverOps : SolverCall(u, op)
  \/ UNCHANGED xvars /\ TrackerKeepAlive
  \/ UNCHANGED xvars /\ TrackerLock
  \/ UNCHANGED xvars /\ \E failed \in BOOLEAN, closes \in BOOLEAN : TrackerExit(failed, closes)
  \/ UNCHANGED xvars /\ \E th \in SThreads : sendAndReconnect(th)
  \/ UNCHANGED xvars /\ \E th \in SThreads, net \in NetOutcomes, closes \in BOOLEAN : SolverSend(th, net, closes)
  \/ UNCHANGED xvars /\ \E th \in SThreads, connects \in BOOLEAN : SolverConnect(th, connects)
  \/ UNCHANGED xvars /\ \E th \in SThreads, net \in NetOutcomes, closes \in BOOLEAN : SolverHandshake(th, net, closes)
  \/ UNCHANGED xvars /\ \E th \in SThreads, net \in NetOutcomes, closes \in BOOLEAN : SolverAnnounce(th, net, closes)
  \/ UNCHANGED xvars /\ \E th \in SThreads : SolverInterrupt(th)
  \/ UNCHANGED xvars /\ \E th \in SThreads : SolverJoined(th)
  \/ UNCHANGED xvars /\ \E th \in SThreads : SolverSpawn(th)
  \/ UNCHANGED xvars /\ \E th \in SThreads : SolverReturn(th)

SpecSolver == InitSolver /\ [][NextSolver]_vars

\* The on-demand gate: the tracker processing start_on_demand and
\* stop_on_demand messages while one user thread runs the loop of sendData
\* over its solution vector.
InitDemand ==
  /\ ClientInit(Key(0, 0)) /\ s
  /\ WriteInit(TRUE, TRUE)
  /\ DemandInit
  /\ AggInit /\ AliasInit /\ ResourceInit

NextDemand ==
  \/ UNCHANGED <<lvars, sub_mutex, solver_dtor>> /\ \E alias \in AliasIds, request \in Requests : StartOnDemand(alias, request, MaxDemandMsgs)
  \/ UNCHANGED <<lvars, sub_mutex, solver_dtor>> /\ \E alias \in AliasIds, request \in Requests : StopOnDemand(alias, request, MaxDemandMsgs)
  \/ UNCHANGED <<lvars, rvars>> /\ SendDataBegin("u1")
  \/ UNCHANGED <<lvars, rvars>> /\ \E type \in TypeNames, target \in Targets : SendDataFilter("u1", type, target)

SpecDemand == InitDemand /\ [][NextDemand]_vars

\* A whole sendData call: the loop, and the Solution message on its way
\* through sendAndReconnect.
InitSolution == InitDemand

NextSolution ==
  \/ UNCHANGED <<lvars, sub_mutex, solver_dtor>> /\ \E alias \in AliasIds, request \in Requests : StartOnDemand(alias, request, MaxGateMsgs)
  \/ UNCHANGED <<lvars, sub_mutex, solver_dtor>> /\ \E alias \in AliasIds, request \in Requests : StopOnDemand(alias, request, MaxGateMsgs)
  \/ UNCHANGED <<lvars, rvars>> /\ SendDataBegin("u1")
  \/ UNCHANGED <<lvars, rvars>> /\ \E type \in TypeNames, target \in Targets : SendDataFilter("u1", type, target)
  \/ UNCHANGED <<lvars, rvars>> /\ SendDataSend("u1")
  \/ UNCHANGED xvars /\ \E failed \in BOOLEAN, closes \in BOOLEAN : TrackerExit(failed, closes)
  \/ UNCHANGED xvars /\ sendAndReconnect("u1")
  \/ UNCHANGED xvars /\ \E net \in NetOutcomes, closes \in BOOLEAN : SolverSend("u1", net, closes)
  \/ UNCHANGED xvars /\ \E connects \in BOOLEAN : SolverConnect("u1", connects)
  \/ UNCHANGED xvars /\ \E net \in NetOutcomes, closes \in BOOLEAN : SolverHandshake("u1", net, closes)
  \/ UNCHANGED xvars /\ \E net \in NetOutcomes, closes \in BOOLEAN : SolverAnnounce("u1", net, closes)
  \/ UNCHANGED xvars /\ SolverInterrupt("u1")
  \/ UNCHANGED xvars /\ SolverJoined("u1")
  \/ UNCHANGED xvars /\ SolverSpawn("u1")
  \/ UNCHANGED <<lvars, rvars>> /\ SendDataReturn("u1")

SpecSolution == InitSolution /\ [][NextSolution]_vars

\* The type registry: one user thread calling addTypes, each call ending
\* with its type announcement on the way through sendAndReconnect, while
\* the tracker processes start_on_demand and stop_on_demand messages.
InitTypes == InitDemand

NextTypes ==
  \/ UNCHANGED <<lvars, sub_mutex, solver_dtor>> /\ \E alias \in AliasIds, request \in Requests : StartOnDemand(alias, request, MaxGateMsgs)
  \/ UNCHANGED <<lvars, sub_mutex, solver_dtor>> /\ \E alias \in AliasIds, request \in Requests : StopOnDemand(alias, request, MaxGateMsgs)
  \/ UNCHANGED <<lvars, rvars>> /\ addTypes("u1")
  \/ UNCHANGED <<lvars, rvars>> /\ \E type \in TypeNames, on_demand \in BOOLEAN : AddTypesRegister("u1", type, on_demand)
  \/ UNCHANGED <<lvars, rvars>> /\ AddTypesAnnounce("u1")
  \/ UNCHANGED xvars /\ \E failed \in BOOLEAN, closes \in BOOLEAN : TrackerExit(failed, closes)
  \/ UNCHANGED xvars /\ sendAndReconnect("u1")
  \/ UNCHANGED xvars /\ \E net \in NetOutcomes, closes \in BOOLEAN : SolverSend("u1", net, closes)
  \/ UNCHANGED xvars /\ \E connects \in BOOLEAN : SolverConnect("u1", connects)
  \/ UNCHANGED xvars /\ \E net \in NetOutcomes, closes \in BOOLEAN : SolverHandshake("u1", net, closes)
  \/ UNCHANGED xvars /\ \E net \in NetOutcomes, closes \in BOOLEAN : SolverAnnounce("u1", net, closes)
  \/ UNCHANGED xvars /\ SolverInterrupt("u1")
  \/ UNCHANGED xvars /\ SolverJoined("u1")
  \/ UNCHANGED xvars /\ SolverSpawn("u1")
  \/ UNCHANGED <<lvars, rvars>> /\ SendDataReturn("u1")

SpecTypes == InitTypes /\ [][NextTypes]_vars

\* SolverAggregator: one user thread calling addRules, updateRules and
\* disconnect, and the worker threads of the two targets, which connect,
\* subscribe and are woken by the interrupt.  The peers send no messages
\* here; SpecCallback has them.
InitAgg == InitDemand

NextAgg ==
  \/ UNCHANGED <<lvars, rvars>> /\ \E op \in AggOps : AggCall(op, MaxOps)
  \/ UNCHANGED <<lvars, rvars>> /\ addRules
  \/ UNCHANGED <<lvars, rvars>> /\ Spawn
  \/ UNCHANGED <<lvars, rvars>> /\ disconnect
  \/ UNCHANGED <<lvars, rvars>> /\ Join
  \/ UNCHANGED <<lvars, rvars>> /\ updateRules
  \/ UNCHANGED <<lvars, rvars>> /\ \E t \in AggTargets : WorkerOuter(t)
  \/ UNCHANGED <<lvars, rvars>> /\ \E t \in AggTargets, connects \in BOOLEAN : WorkerConnect(t, connects)
  \/ UNCHANGED <<lvars, rvars>> /\ \E t \in AggTargets, net \in NetOutcomes : WorkerHandshake(t, net)
  \/ UNCHANGED <<lvars, rvars>> /\ \E t \in AggTargets, throws \in BOOLEAN : WorkerSubscribe(t, throws)
  \/ UNCHANGED <<lvars, rvars>> /\ \E t \in AggTargets : WorkerInner(t)
  \/ UNCHANGED <<lvars, rvars>> /\ \E t \in AggTargets : WorkerWoken(t)
  \/ UNCHANGED <<lvars, rvars>> /\ \E t \in AggTargets : WorkerReceiveFails(t)
  \/ UNCHANGED <<lvars, rvars>> /\ \E t \in AggTargets : WorkerDispatch(t)
  \/ UNCHANGED <<lvars, rvars>> /\ \E t \in AggTargets : WorkerCheck(t)
  \/ UNCHANGED <<lvars, rvars>> /\ \E t \in AggTargets, throws \in BOOLEAN : WorkerAdd(t, throws)
  \/ UNCHANGED <<lvars, rvars>> /\ \E t \in AggTargets : WorkerOvershoots(t)
  \/ UNCHANGED <<lvars, rvars>> /\ \E t \in AggTargets : WorkerReset(t)
  \/ UNCHANGED <<lvars, rvars>> /\ \E t \in AggTargets : WorkerSleep(t)

SpecAgg == InitAgg /\ [][NextAgg]_vars

\* SolverAggregator with peers that send messages: the worker threads
\* receive them and call the user's callback, around two calls of the user.
InitCallback == InitDemand

NextCallback ==
  \/ UNCHANGED <<lvars, rvars>> /\ \E op \in AggOps : AggCall(op, MaxCallbackOps)
  \/ UNCHANGED <<lvars, rvars>> /\ addRules
  \/ UNCHANGED <<lvars, rvars>> /\ Spawn
  \/ UNCHANGED <<lvars, rvars>> /\ disconnect
  \/ UNCHANGED <<lvars, rvars>> /\ Join
  \/ UNCHANGED <<lvars, rvars>> /\ updateRules
  \/ UNCHANGED <<lvars, rvars>> /\ \E t \in AggTargets : WorkerOuter(t)
  \/ UNCHANGED <<lvars, rvars>> /\ \E t \in AggTargets, connects \in BOOLEAN : WorkerConnect(t, connects)
  \/ UNCHANGED <<lvars, rvars>> /\ \E t \in AggTargets, net \in NetOutcomes : WorkerHandshake(t, net)
  \/ UNCHANGED <<lvars, rvars>> /\ \E t \in AggTargets, throws \in BOOLEAN : WorkerSubscribe(t, throws)
  \/ UNCHANGED <<lvars, rvars>> /\ \E t \in AggTargets : WorkerInner(t)
  \/ UNCHANGED <<lvars, rvars>> /\ \E t \in AggTargets, msg \in AggMsgs : WorkerReceive(t, msg)
  \/ UNCHANGED <<lvars, rvars>> /\ \E t \in AggTargets : WorkerReceiveFails(t)
  \/ UNCHANGED <<lvars, rvars>> /\ \E t \in AggTargets : WorkerDispatch(t)
  \/ UNCHANGED <<lvars, rvars>> /\ \E t \in AggTargets : CallbackLock(t)
  \/ UNCHANGED <<lvars, rvars>> /\ \E t \in AggTargets : CallbackReturn(t)
  \/ UNCHANGED <<lvars, rvars>> /\ \E t \in AggTargets : WorkerCheck(t)
  \/ UNCHANGED <<lvars, rvars>> /\ \E t \in AggTargets : WorkerWoken(t)
  \/ UNCHANGED <<lvars, rvars>> /\ \E t \in AggTargets, throws \in BOOLEAN : WorkerAdd(t, throws)
  \/ UNCHANGED <<lvars, rvars>> /\ \E t \in AggTargets : WorkerReset(t)
  \/ UNCHANGED <<lvars, rvars>> /\ \E t \in AggTargets : WorkerSleep(t)

SpecCallback == InitCallback /\ [][NextCallback]_vars

\* SolverAggregator with the lock of the subscription list: the user thread
\* locks sub_mutex, changes the list and unlocks, while the worker threads
\* run their loops over the list.
InitSub == InitDemand

NextSub ==
  \/ UNCHANGED <<lvars, compiled, solver_dtor>> /\ \E op \in AggOps : RulesLock(op, MaxSubOps)
  \/ UNCHANGED <<lvars, compiled, solver_dtor>> /\ RulesModify
  \/ UNCHANGED <<lvars, rvars>> /\ addRules
  \/ UNCHANGED <<lvars, rvars>> /\ Spawn
  \/ UNCHANGED <<lvars, rvars>> /\ disconnect
  \/ UNCHANGED <<lvars, rvars>> /\ Join
  \/ UNCHANGED <<lvars, rvars>> /\ updateRules
  \/ UNCHANGED <<lvars, rvars>> /\ \E t \in AggTargets : WorkerOuter(t)
  \/ UNCHANGED <<lvars, rvars>> /\ \E t \in AggTargets, connects \in BOOLEAN : WorkerConnect(t, connects)
  \/ UNCHANGED <<lvars, rvars>> /\ \E t \in AggTargets, net \in NetOutcomes : WorkerHandshake(t, net)
  \/ UNCHANGED <<lvars, rvars>> /\ \E t \in AggTargets, throws \in BOOLEAN : WorkerSubscribe(t, throws)
  \/ UNCHANGED <<lvars, rvars>> /\ \E t \in AggTargets : WorkerRaces(t)
  \/ UNCHANGED <<lvars, rvars>> /\ \E t \in AggTargets : WorkerInner(t)
  \/ UNCHANGED <<lvars, rvars>> /\ \E t \in AggTargets : WorkerWoken(t)
  \/ UNCHANGED <<lvars, rvars>> /\ \E t \in AggTargets : WorkerReceiveFails(t)
  \/ UNCHANGED <<lvars, rvars>> /\ \E t \in AggTargets : WorkerDispatch(t)
  \/ UNCHANGED <<lvars, rvars>> /\ \E t \in AggTargets : WorkerCheck(t)
  \/ UNCHANGED <<lvars, rvars>> /\ \E t \in AggTargets, throws \in BOOLEAN : WorkerAdd(t, throws)
  \/ UNCHANGED <<lvars, rvars>> /\ \E t \in AggTargets : WorkerReset(t)
  \/ UNCHANGED <<lvars, rvars>> /\ \E t \in AggTargets : WorkerSleep(t)

SpecSub == InitSub /\ [][NextSub]_vars

\* The compiled patterns of the solver: the tracker processes
\* start_on_demand and stop_on_demand messages until the user destroys the
\* SolverWorldModel.
InitRegex == InitDemand

NextRegex ==
  \/ UNCHANGED <<lvars, sub_mutex, solver_dtor>> /\ \E alias \in AliasIds, request \in Requests : StartOnDemand(alias, request, MaxRegexMsgs)
  \/ UNCHANGED <<lvars, sub_mutex, solver_dtor>> /\ \E alias \in AliasIds, request \in Requests : StopOnDemand(alias, request, MaxRegexMsgs)
  \/ UNCHANGED xvars /\ \E failed \in BOOLEAN, closes \in BOOLEAN : TrackerExit(failed, closes)
  \/ UNCHANGED <<lvars, sub_mutex>> /\ SolverDestructor
  \/ UNCHANGED <<lvars, sub_mutex>> /\ SolverDestructorEnd

SpecRegex == InitRegex /\ [][NextRegex]_vars

\* --------------------------------------- concurrent requests and tickets
MaxTickets == 3       \* requests issued in the behaviours of SpecTicket

\* The last but one value of a uint32_t
LateKey == Key(Half - 1, Half - 2)

\* A connection just constructed, or one on which 2^32 - 2 stream requests
\* were made and their handles destroyed: cur_key is all they leave behind.
InitTicket ==
  /\ \E key \in {Key(0, 0), LateKey} : ClientInit(key)
  /\ WriteInit(TRUE, TRUE)
  /\ DemandInit
  /\ AggInit /\ AliasInit /\ ResourceInit

\* Two user threads issuing requests and destroying the handles they got
NextTicket ==
  \/ UNCHANGED <<wvars, xvars>> /\ \E u \in Users, kind \in Kinds : AllocRead(u, kind, MaxTickets)
  \/ UNCHANGED <<wvars, xvars>> /\ \E u \in Users : AllocIncr(u)
  \/ UNCHANGED <<wvars, xvars>> /\ \E u \in Users : makeStepPromise(u)
  \/ UNCHANGED <<wvars, xvars>> /\ \E u \in Users, net \in NetOutcomes, closes \in BOOLEAN : SendRequest(u, net, closes)
  \/ UNCHANGED <<wvars, xvars>> /\ \E h \in HandleIds : markFinishedDrain(h)
  \/ UNCHANGED <<wvars, xvars>> /\ \E h \in HandleIds : markFinishedErase(h)

SpecTicket == InitTicket /\ [][NextTicket]_vars

\* Tickets handed out: those of the handles, and those of the request
\* methods that have left the critical section of `ticket = cur_key++`
HandedOut ==
  {handles[h].ticket : h \in HandleIds}
    \cup {user[u].ticket : u \in {x \in Users : user[x].pc \in {"register", "send"}}}

\* C2: no two live requests share a ticket, and tickets are handed out in
\* strictly increasing order: every ticket handed out so far is less than
\* cur_key, the next one to be handed out.
C2_UniqueIncreasingTickets ==
  /\ \A h1, h2 \in HandleIds :
       (h1 # h2 /\ handles[h1].st # "gone" /\ handles[h2].st # "gone")
       => handles[h1].ticket # handles[h2].ticket
  /\ \A u1, u2 \in Users :
       (u1 # u2 /\ user[u1].pc \in {"register", "send"}
                /\ user[u2].pc \in {"register", "send"})
       => user[u1].ticket # user[u2].ticket
  /\ \A t \in HandedOut : KeyLess(t, cur_key)

\* ------------------------------------------------ properties of the client
IsData(m) == m.type = "data_response"

IsComplete(m) == m.type = "request_complete"

\* L is k >= 0 data_response messages followed by one request_complete
CompleteStream(L) ==
  /\ L # <<>>
  /\ IsComplete(L[Len(L)])
  /\ \A i \in 1..(Len(L) - 1) : IsData(L[i])

\* L is k >= 1 data_response messages
OnlyData(L) == L # <<>> /\ \A i \in DOMAIN L : IsData(L[i])

\* The single-entry WorldState of the data_response m
StateOf(m) == Res("value", [u \in URIs |-> IF u = m.uri THEN m.attrs ELSE 0])

\* Position of the first request_complete of L, Len(L) + 1 if there is none
FirstComplete(L) ==
  CHOOSE i \in 1..(Len(L) + 1) :
    /\ i = Len(L) + 1 \/ IsComplete(L[i])
    /\ \A j \in 1..(i - 1) : ~IsComplete(L[j])

\* The data_response messages of L before its first request_complete, merged
\* by URI, the last message for a URI winning
MergedBeforeComplete(L) ==
  [u \in URIs |->
     LET at == {j \in 1..(FirstComplete(L) - 1) : L[j].uri = u}
     IN IF at = {} THEN 0
        ELSE L[CHOOSE j \in at : \A x \in at : x <= j].attrs]

\* A stream request that was sent, with its handle in the user's hands
LiveStream(h) ==
  /\ handles[h].kind = "stream"
  /\ handles[h].st = "live"
  /\ handles[h].sent

\* C1: every slot is resolved exactly once by the time it is released: no
\* slot is resolved a second time (set_value / set_exception on a promise
\* that is already satisfied), and no slot is released while still pending.
C1_ResolvedExactlyOnce ==
  /\ fault.kind # "promise_already_satisfied"
  /\ unresolved = {}

\* C3: for a stream whose ticket received k data_response messages and then
\* request_complete, call i <= k of next() returns the single-entry state of
\* the i-th message and call k + 1 returns the empty WorldState.
C3_StreamInOrder ==
  \A h \in HandleIds :
    LET hd == handles[h]
        L == Log(hd.ticket)
        k == Len(L) - 1
    IN (LiveStream(h) /\ CompleteStream(L) /\ hd.ticket \notin netError)
       => \A i \in DOMAIN hd.got :
            /\ i <= k => hd.got[i] = StateOf(L[i])
            /\ i = k + 1 => hd.got[i] = Res("value", EmptyWS)

\* C4: once request_complete was processed and next() has returned all k + 1
\* results of the stream, isComplete() on the live handle is true.
C4_CompleteAfterSentinel ==
  \A h \in HandleIds :
    LET hd == handles[h]
        L == Log(hd.ticket)
    IN (/\ LiveStream(h) /\ CompleteStream(L)
        /\ Len(hd.got) = Len(L)
        /\ \A i \in DOMAIN hd.got : hd.got[i].r = "value")
       => isComplete(hd.ticket)

\* C5: what get() returns for a Single request is the merge by URI, later
\* message winning, of the data_response messages dispatched for its ticket
\* before request_complete; and the slot of a Single ticket holds no value
\* until a request_complete was dispatched for it.
C5_SingleMerged ==
  /\ \A h \in HandleIds :
       (handles[h].kind = "single" /\ handles[h].st = "live")
       => \A i \in DOMAIN handles[h].got :
            handles[h].got[i].r = "value"
            => /\ \E j \in DOMAIN Log(handles[h].ticket) :
                    IsComplete(Log(handles[h].ticket)[j])
               /\ handles[h].got[i].ws = MergedBeforeComplete(Log(handles[h].ticket))
  /\ \A t \in single_response \cap DOMAIN step_promises :
       (step_promises[t] # <<>> /\ Head(step_promises[t]).st = "value")
       => \E j \in DOMAIN Log(t) : IsComplete(Log(t)[j])

\* get() has returned the merge of two data_response messages for one URI
C5_Witness ==
  \E h \in HandleIds :
    /\ handles[h].kind = "single"
    /\ \E i \in DOMAIN handles[h].got : handles[h].got[i].r = "value"
    /\ \E i, j \in DOMAIN Log(handles[h].ticket) :
         /\ i < j /\ j < FirstComplete(Log(handles[h].ticket))
         /\ Log(handles[h].ticket)[i].uri = Log(handles[h].ticket)[j].uri

\* C6: after a socket failure that follows k >= 1 data_response messages of
\* a stream, call i <= k of next() returns the i-th delivered state and every
\* later call fails with Connection Closed.
C6_RemainingFailClosed ==
  \A h \in HandleIds :
    LET hd == handles[h]
        L == Log(hd.ticket)
    IN (/\ LiveStream(h) /\ OnlyData(L)
        /\ hd.ticket \in netError /\ fault = NoFault)
       => \A i \in DOMAIN hd.got :
            /\ i <= Len(L) => hd.got[i] = StateOf(L[i])
            /\ i > Len(L) => hd.got[i] = Res("ConnectionClosed", EmptyWS)

C8_HandleGoneNoSlots ==
  \A h \in HandleIds :
    handles[h].st = "gone" /\ ~destroyed /\ fault = NoFault
    => /\ handles[h].ticket \notin DOMAIN step_promises
       /\ handles[h].ticket \notin leaked

\* ------------------------------------------------ properties of the writes
\* A write of user thread u to the client's socket is in progress
ClientUserWriting(u) == cw[u].pc \in {"writing", "handshake"}

\* A write of thread th to the solver's socket is in progress
SolverWriting(th) == sar[th].pc \in {"sending", "handshake", "announce"}

\* C9: a keep-alive reply of the receive thread (the tracker) and a write of
\* a user thread are never in progress on one socket at the same time; the
\* reply and the user's message are written by the holder of out_mutex
\* (send_mutex).
C9_KeepAliveExcludesUserWrite ==
  /\ \A u \in Users : ~(rxpc = "ka_write" /\ ClientUserWriting(u))
  /\ rxpc = "ka_write" => out_mutex = "rx"
  /\ \A u \in Users : cw[u].pc = "writing" => out_mutex = u
  /\ \A u \in Users : ~(SolverWriting("tracker") /\ SolverWriting(u))
  /\ \A th \in SThreads : SolverWriting(th) => solver.send_mutex = th

\* C10: control leaves sendAndReconnect only by a return that follows a
\* send of the buffer that completed without error, never by giving up or
\* with a failure reported.
C10_ReturnsOnlyWhenSent ==
  \A th \in SThreads :
    sar[th].pc = "done" => sar[th].sent /\ ~sar[th].threw

\* ------------------------------------------- properties of the solver
\* The delay that the documented schedule puts before the i-th retry
ScheduledDelay(i) == IF i = 1 THEN 0 ELSE IF i = 2 THEN 1 ELSE 8

\* C11: within one sendAndReconnect call that keeps failing, the sleeps
\* before the successive retries are 0 seconds, then 1 second, then 8
\* seconds before every later retry.
C11_RetryDelaySchedule ==
  \A th \in SThreads :
    \A i \in 1..Len(sar[th].delays) : sar[th].delays[i] = ScheduledDelay(i)

\* The registry entry of a type, as a set
EntryOf(type) == {i \in 1..Len(types) : types[i].type = type}

RegisteredAs(type, on_demand) ==
  \E i \in EntryOf(type) : types[i].on_demand = on_demand

\* C12: an update whose type was registered as not on-demand is put into
\* the Solution message by sendData, whatever start_on_demand and
\* stop_on_demand messages the tracker has processed before.
C12_PlainTypeAlwaysSent ==
  \A u \in Users :
    RegisteredAs(sdcall[u].last.type, FALSE) => sdcall[u].last.sent

\* The pattern, read as an extended regular expression over the code units
\* of the URI, matches the URI from offset 0 through its full length
FullMatch(request, target) ==
  Len(target) \in MatchEnds(ParseItems(request), 1, target, 0)

GateOpen(alias, target) ==
  \E ta \in BagToSet(on_demand_on[alias].set) :
    ta.valid /\ FullMatch(ta.request, target)

\* The step is an iteration of sendData's loop in thread u
FilterStep(u) == sdcall'[u].n = sdcall[u].n + 1

\* C13: an update whose type was registered as on-demand is put into the
\* Solution message if and only if the multiset of its alias holds, at that
\* time, a valid pattern that matches the URI from offset 0 through its
\* full length.
C13_OnDemandGate ==
  [][\A u \in Users :
       (FilterStep(u) /\ RegisteredAs(sdcall'[u].last.type, TRUE))
       => (sdcall'[u].last.sent
             <=> GateOpen(aliases[sdcall'[u].last.type], sdcall'[u].last.target))]_vars

\* C14: every sendData call emits exactly one Solution message, carrying
\* the updates that survived the filter, also when none survived: when
\* control leaves sendData, the message made of sds has been accepted by
\* the socket.
C14_OneSolutionPerCall ==
  \A u \in Users :
    (sdcall[u].pc = "send" /\ sar[u].pc = "done") => sar[u].sent

\* The number of entries of the alias's multiset with this pattern source
RECURSIVE CopiesOf(_, _)
CopiesOf(entries, bag) ==
  IF entries = {} THEN 0
  ELSE LET ta == CHOOSE x \in entries : TRUE
       IN CopiesIn(ta, bag) + CopiesOf(entries \ {ta}, bag)

Occurrences(on, alias, request) ==
  CopiesOf({ta \in BagToSet(on[alias].set) : ta.request = request}, on[alias].set)

Started(alias, request) == tracked[alias][request].start
Stopped(alias, request) == tracked[alias][request].stop

\* C15, as stated: after N start_on_demand and M stop_on_demand messages
\* for the same alias and pattern source, in any order, the multiset of the
\* alias holds exactly max(N - M, 0) entries with that source.
C15_BalanceAnyOrder ==
  \A alias \in AliasIds, request \in Requests :
    Occurrences(on_demand_on, alias, request)
      = IF Started(alias, request) > Stopped(alias, request)
        THEN Started(alias, request) - Stopped(alias, request) ELSE 0

\* C15, amended: every start_on_demand adds exactly one entry with its
\* pattern source, whether the pattern compiled or not; every
\* stop_on_demand removes exactly one occurrence when there is one and
\* leaves the on-demand state unchanged when the pattern or the alias is
\* absent; entries of other aliases and sources are not touched.
C15_BalanceStepwise ==
  [][\A alias \in AliasIds, request \in Requests :
       LET before == Occurrences(on_demand_on, alias, request)
           after == Occurrences(on_demand_on', alias, request)
       IN /\ tracked'[alias][request].start = Started(alias, request) + 1
               => after = before + 1
          /\ tracked'[alias][request].stop = Stopped(alias, request) + 1
               => /\ after = (IF before > 0 THEN before - 1 ELSE 0)
                  /\ before = 0 => on_demand_on' = on_demand_on
          /\ tracked'[alias][request] = tracked[alias][request]
               => after = before]_vars

\* Two starts and one stop of a pattern that does not compile have left one
\* entry
C15_Witness ==
  \E alias \in AliasIds, request \in Requests :
    /\ Started(alias, request) = 2
    /\ Stopped(alias, request) = 1
    /\ Occurrences(on_demand_on, alias, request) = 1
    /\ ~OnDemandArgs(request).valid

\* --------------------------------------- properties of SolverAggregator
\* The calls made so far, all of them returned
Called(ops) == ctl.ops = ops /\ ctl.pc = "idle"

\* The index of the last handshake that the peer of t has observed
LastHandshake(t) ==
  LET hs == {i \in 1..Len(wire[t]) : wire[t][i] = "handshake"}
  IN IF hs = {} THEN 0 ELSE Largest(hs)

\* What the peer has observed on the connection it has with t now
OnConnection(t) ==
  IF LastHandshake(t) = 0 THEN <<>>
  ELSE SubSeq(wire[t], LastHandshake(t) + 1, Len(wire[t]))

Times(seq, x) == Cardinality({i \in 1..Len(seq) : seq[i] = x})

\* The worker has subscribed and waits for the messages of its peer
Waiting(t) == worker[t].pc = "recv"

\* C16: with two targets and workers started by addRules(s1), a later
\* addRules(s2) makes every worker send subscribe_request(s2) to its peer
\* exactly once: never twice on a connection, and once the interrupt has
\* been taken back no connected worker is left that has not sent it.
C16_EveryWorkerSubscribes ==
  Called(<<"addRules", "addRules">>) =>
    \A t \in AggTargets :
      /\ Times(OnConnection(t), "s2") <= 1
      /\ (Waiting(t) /\ interrupted = "none") => Times(OnConnection(t), "s2") = 1

\* seq has sub as a subsequence
RECURSIVE HasSubSeq(_, _)
HasSubSeq(seq, sub) ==
  IF sub = <<>> THEN TRUE
  ELSE IF seq = <<>> THEN FALSE
  ELSE IF Head(seq) = Head(sub) THEN HasSubSeq(Tail(seq), Tail(sub))
  ELSE HasSubSeq(Tail(seq), sub)

\* C17, as stated: after addRules(s1) followed by updateRules(s2), when the
\* new workers have subscribed, every target has observed a handshake,
\* subscribe_request(s1), a disconnect, a new handshake and
\* subscribe_request(s2).
C17_TargetObservesBoth ==
  Called(<<"addRules", "updateRules">>) =>
    \A t \in AggTargets :
      Waiting(t) =>
        HasSubSeq(wire[t], <<"handshake", "s1", "disconnect", "handshake", "s2">>)

\* The peer never observes a handshake on a connection while it has an
\* earlier connection that was not closed
Separated(seq) ==
  \A i, j \in 1..Len(seq) :
    (i < j /\ seq[i] = "handshake" /\ seq[j] = "handshake")
      => \E k \in (i + 1)..(j - 1) : seq[k] = "disconnect"

\* C17, amended: after addRules(s1) followed by updateRules(s2) has
\* returned, every worker that is connected and waits for messages has sent
\* on its connection a handshake and subscribe_request(s2) and nothing else;
\* a target observes a disconnect between any two handshakes; and a target
\* that has observed subscribe_request(s1) has observed it on an earlier
\* connection: handshake, subscribe_request(s1), disconnect, handshake,
\* subscribe_request(s2).
C17_ReplacedAfterUpdate ==
  \A t \in AggTargets :
    /\ Separated(wire[t])
    /\ (Called(<<"addRules", "updateRules">>) /\ Waiting(t))
         => /\ OnConnection(t) = <<"s2">>
            /\ Times(wire[t], "s1") > 0
                 => HasSubSeq(wire[t], <<"handshake", "s1", "disconnect",
                                         "handshake", "s2">>)

\* A target has observed handshake, s1, disconnect, handshake, s2
C17_Witness ==
  /\ Called(<<"addRules", "updateRules">>)
  /\ \A t \in AggTargets :
       Waiting(t) /\ wire[t] = <<"handshake", "s1", "disconnect", "handshake", "s2">>

\* C18: once disconnect() has set close_connection, every worker leaves its
\* loops and disconnect() returns: while disconnect() waits in join, no
\* worker is blocked in getNextMessage with the interrupt taken back to none.
C18_DisconnectReturns ==
  ~(/\ ctl.pc = "join"
    /\ ~Truthy(interrupted)
    /\ \E t \in AggTargets : Waiting(t))

LastOp(n) == IF Len(ctl.ops) >= n THEN ctl.ops[Len(ctl.ops) + 1 - n] ELSE "none"

NoWorkers ==
  /\ server_threads = <<>>
  /\ \A t \in AggTargets : worker[t].pc = "none"

\* C19: when disconnect() returns no worker is running and the worker list
\* is empty; a second disconnect() leaves the aggregator as the first left
\* it; addRules after a disconnect starts a fresh worker per target.
C19_DisconnectIdempotent ==
  /\ []((ctl.pc = "idle" /\ LastOp(1) = "disconnect") => NoWorkers)
  /\ []((ctl.pc = "idle" /\ LastOp(1) = "addRules" /\ LastOp(2) = "disconnect")
          => /\ server_threads = Servers
             /\ \A t \in AggTargets : worker[t].pc # "none")
  /\ [][(LastOp(1) = "disconnect" /\ LastOp(2) = "disconnect" /\ ctl.pc # "idle")
          => UNCHANGED <<subscriptions, server_threads, interrupted,
                         callback_mutex, worker, wire>>]_vars

\* A second disconnect() has returned, after workers had been started
C19_Witness ==
  Called(<<"addRules", "disconnect", "disconnect">>) /\ NoWorkers

\* C20: at most one worker is inside the user's callback at any time, and
\* the callback runs only for a server_sample whose sample is valid.
C20_CallbackExclusive ==
  /\ Cardinality({t \in AggTargets : worker[t].pc = "callback"}) <= 1
  /\ \A t \in AggTargets :
       worker[t].pc = "callback"
         => worker[t].msg = "sample_valid" /\ callback_mutex = t

\* One worker is inside the callback while the other waits for the mutex
C20_Witness ==
  \E t1, t2 \in AggTargets :
    worker[t1].pc = "callback" /\ worker[t2].pc = "cb_lock"

\* ------------------------------------------------ properties, C21 to C30
\* C21: the type registry holds aliases 1..n in declaration order, the
\* reverse mapping of a declared type names its latest entry, and a step
\* only appends to the registry: a new type gets the next unused integer
\* and no entry that exists is changed.
C21_AliasesSequential ==
  /\ [](/\ \A i \in 1..Len(types) : types[i].alias = i
        /\ \A t \in TypeNames :
             aliases[t] # NoAlias
               => /\ aliases[t] \in 1..Len(types)
                  /\ types[aliases[t]].type = t
                  /\ \A i \in 1..Len(types) : types[i].type = t => i <= aliases[t])
  /\ [][/\ Len(types') >= Len(types)
        /\ SubSeq(types', 1, Len(types)) = types]_vars

\* Two addTypes calls have returned, and a type was declared a second time
C21_Witness ==
  /\ sdcall["u1"].pc = "idle"
  /\ sdcall["u1"].calls = MaxAddCalls
  /\ Len(types) = MaxTypes
  /\ \E i, j \in 1..Len(types) : i < j /\ types[i].type = types[j].type

\* C22: a ClientWorldConnection never has more than one receive thread
\* started and not joined: no reconnect() starts a receive thread while the
\* thread that another reconnect() started is still joinable.
C22_OneReceiveThread == fault # TwoThreads

\* C23: the receive thread's handler for a socket or framing exception sets
\* the tail slot of every live ticket to Connection Closed and the thread
\* exits normally: no set_exception of the handler finds a tail that is
\* satisfied already and throws out of the handler.
C23_HandlerFailsEveryTail == fault # AlreadySatisfied("network_error")

\* C24: the receive thread never stops receiving while it leaves a live
\* ticket unresolved: a step in which the thread leaves its loop leaves no
\* pending slot behind in the ticket registry.
C24_ShortFrameHandled ==
  [][(rxpc = "recv" /\ rxpc' = "exited" /\ fault' = NoFault)
       => \A t \in DOMAIN step_promises' : ~AnyPending(step_promises'[t])]_vars

\* C25: in reconnect(), a handshake reply that is short or differs from the
\* handshake sent clears the socket and starts no receive thread, so that
\* connected() is false when false is returned; and a step that starts a
\* receive thread is the step of a reconnect() whose reply was equal, which
\* leaves the socket open and does not return false.
C25_HandshakeMismatch ==
  /\ [][\A u \in Users :
          (cw[u].pc = "handshake" /\ cw'[u].pc = "refused")
            => ~s' /\ rxpc' = rxpc /\ fault' = fault]_vars
  /\ [][(rxpc = "off" /\ rxpc' = "recv")
          => /\ s'
             /\ \E u \in Users :
                  /\ cw[u].pc = "handshake"
                  /\ cw'[u] \in {CwIdle, CwAt("connected", "request")}]_vars

\* reconnect() is about to return false after a handshake reply that
\* differed: the socket is cleared and there is no receive thread
C25_Witness ==
  \E u \in Users : cw[u].pc = "refused" /\ ~s /\ rxpc = "off"

\* C26: inside sendAndReconnect every failed send is followed by an
\* invocation of reconnect before the next send attempt, and an iteration
\* that finds the socket closed invokes reconnect: no s.send(buff) begins
\* while the last thing the call did was a send that failed.
C26_ReconnectAfterFailure ==
  /\ [](\A th \in SThreads :
          sar[th].pc = "sending" => sar[th].last # "send_failed")
  /\ [][\A th \in SThreads :
          (sar[th].pc = "loop" /\ ~sar[th].sent /\ ~solver.s
             /\ sar'[th].pc # "loop")
            => sar'[th].pc = "reconnect"]_vars

\* C27: an aggregator worker whose handshake reply differs from the
\* handshake it sent closes the connection and goes to the one-second sleep
\* before it connects again: a worker leaves the handshake only to send its
\* subscriptions or to sleep and retry, and does not end.
C27_MismatchRetries ==
  [][\A t \in AggTargets :
       worker[t].pc = "handshake"
         => worker'[t].pc \in {"handshake", "subscribe", "sleep"}]_vars

\* C28: for every data_response that the client processes, the name alias
\* and the origin alias of its attribute resolve to strings that an earlier
\* attribute_alias and origin_alias message declared, and the attribute
\* given on has these strings.
C28_AliasesResolve ==
  [][received' # received
       => /\ known_attributes[delivered'.name_alias] \in AttrNames
          /\ delivered'.name = known_attributes[delivered'.name_alias]
          /\ known_origins[delivered'.origin_alias] \in Origins
          /\ delivered'.origin = known_origins[delivered'.origin_alias]]_vars

\* C29: for every stream ticket, from its registration until its
\* request_complete or a connection failure has been processed, the slot
\* queue is not empty and its last slot is unfulfilled, whatever the order
\* in which the data_response handler and the consumer's next() calls run
\* (the handler holds promise_mutex between its set_value and its push).
C29_StreamTailOpen ==
  \A h \in HandleIds :
    LET t == handles[h].ticket IN
    (/\ Running
     /\ handles[h].kind = "stream"
     /\ handles[h].st \in {"live", "unwinding"}
     /\ t \in DOMAIN step_promises
     /\ t \notin errors \cup netError
     /\ \A i \in DOMAIN Log(t) : Log(t)[i].type # "request_complete"
     /\ ~(rxpc = "push" /\ rxTicket = t))
    => /\ step_promises[t] # <<>>
       /\ Back(step_promises[t]).st = "pending"

\* A stream ticket, not complete, after two data_response messages and one
\* next(): the value of the first has been taken, the second waits at the
\* head and the open slot is the tail.
C29_Witness ==
  \E h \in HandleIds :
    LET t == handles[h].ticket IN
    /\ Running
    /\ handles[h].kind = "stream" /\ handles[h].st = "live"
    /\ t \in DOMAIN step_promises /\ t \notin errors \cup netError
    /\ \A i \in DOMAIN Log(t) : Log(t)[i].type # "request_complete"
    /\ rxpc = "recv"
    /\ Len(handles[h].got) = 1 /\ handles[h].got[1].r = "value"
    /\ Len(step_promises[t]) = 2
    /\ step_promises[t][1].st = "value" /\ step_promises[t][2].st = "pending"

\* C30: a worker that observes interrupted = add_subscriptions sends
\* subscribe_request for the entries of the list from position
\* sent_subscriptions on, one by one and each once, and when it then sets
\* interrupted to none, with no call of the controlling thread under way, it
\* has sent_subscriptions equal to the length of the list.
C30_TailSentThenNone ==
  [][\A t \in AggTargets :
       /\ (worker[t].pc = "check" /\ worker'[t].pc = "add")
            => worker'[t].sub = worker[t].sent_subscriptions + 1
       /\ (worker[t].pc = "add" /\ wire'[t] # wire[t] /\ worker'[t].pc = "add")
            => /\ wire'[t] = Append(wire[t], subscriptions[worker[t].sent_subscriptions + 1])
               /\ worker'[t].sent_subscriptions = worker[t].sent_subscriptions + 1
       /\ (worker[t].pc = "reset" /\ worker'[t].pc = "inner" /\ ctl.pc = "idle")
            => /\ worker[t].sent_subscriptions = Len(subscriptions)
               /\ interrupted' = "none"]_vars

\* C31: every step that changes step_promises, partial_results or errors is
\* taken by a thread that holds promise_mutex: either the mutex is free
\* when the step begins (the step locks, accesses and unlocks), or the
\* receive thread holds it and the step is the rest of its handler.  The
\* release of a ticket's slots by a handle's destructor is such a step.
C31_RegistryUnderMutex ==
  [][(\/ step_promises' # step_promises
      \/ partial_results' # partial_results
      \/ errors' # errors)
       => \/ promise_mutex = "free"
          \/ promise_mutex = "rx" /\ rxpc = "push" /\ rxpc' = "recv"]_vars

\* C32: a worker thread takes no step of its loops over the subscription
\* list while addRules or updateRules holds sub_mutex and is changing the
\* list.
C32_ListUnderMutex ==
  [][\A t \in AggTargets :
       (worker[t].pc \in {"subscribe", "add"} /\ worker'[t] # worker[t])
         => sub_mutex # "ctl"]_vars

\* C33: every compiled pattern is freed exactly once: the number of
\* patterns compiled and not freed is the number of valid entries that the
\* multisets hold, and none is left after ~SolverWorldModel has run.
C33_RegexFreed ==
  /\ compiled >= 0
  /\ solver_dtor = "done" => compiled = 0

\* C34: whenever next() advances with getNextFuture, the queue of the ticket
\* still holds a slot after the head has been popped, also when the value
\* taken is the end-of-stream sentinel or the failure of the stream.
C34_SuccessorAfterPop ==
  [][\A h \in HandleIds :
       LET t == handles[h].ticket IN
       (/\ handles[h].kind = "stream"
        /\ Len(handles'[h].got) = Len(handles[h].got) + 1
        /\ t \in DOMAIN step_promises
        /\ step_promises'[t] # step_promises[t])
       => step_promises'[t] # <<>>]_vars

\* C35: a request method that holds out_mutex, finds the socket closed and
\* calls reconnect() is never left waiting in the join for a receive thread
\* that has read a keep_alive and waits for out_mutex to send its reply.
C35_JoinReturns ==
  \A u \in Users :
    ~(/\ cw[u] = CwAt("locked", "request")
      /\ out_mutex = u
      /\ ~s
      /\ rxpc = "ka_lock")

\* C36: a user write of the solver that holds send_mutex and reconnects is
\* never left waiting in the join for a tracker that has read a keep_alive
\* and waits for send_mutex to reply.
C36_TrackerJoinReturns ==
  \A u \in Users :
    ~(/\ sar[u].pc = "joining"
      /\ solver.send_mutex = u
      /\ sar["tracker"].pc = "wait_lock")

\* C37: a reconnect() of the solver whose handshake and type announcement
\* have succeeded goes on to start a tracker thread, whichever thread called
\* it, the tracker replying to a keep_alive included: it stops the old
\* tracker and spawns the new one, and is not left by an exception, so that
\* the buffer of the call is sent afterwards.
C37_TrackerAfterReconnect ==
  [][\A th \in SThreads :
       (sar[th].pc = "join" /\ sar'[th].pc # "join")
         => /\ sar'[th].pc \in {"joining", "spawn"}
            /\ ~sar'[th].threw]_vars

\* C38: no step of a worker changes interrupted away from close_connection:
\* the store of none after the tail loop replaces add_subscriptions only.
C38_CloseNotOverwritten ==
  [][(interrupted = "close_connection" /\ interrupted' # "close_connection")
       => \A t \in AggTargets : worker'[t] = worker[t]]_vars

\* C39: whenever a worker sends the tail of the list, that is from the
\* evaluation of subscriptions.begin() + sent_subscriptions to the end of
\* the loop, sent_subscriptions is at most the length of the list.
C39_SentWithinList ==
  \A t \in AggTargets :
    worker[t].pc = "add" => worker[t].sent_subscriptions <= Len(subscriptions)

\* C40: sendAndReconnect writes no buffer after a reconnect() that returned
\* false because the handshake reply differed, until a later reconnect()
\* has succeeded: the last thing the call did before a send is never a
\* reconnect() that ended in a handshake mismatch.
C40_NoSendAfterMismatch ==
  \A th \in SThreads :
    sar[th].pc = "sending" => sar[th].last # "mismatch"
====
